---- MODULE Spec2Model ----
(***************************************************************************)
(* Model of the evidence-retrieval and temporal-reasoning core of the      *)
(* OSCE video grader (src/osce-video-grader/core).                         *)
(*                                                                         *)
(* The module holds several specifications over one set of variables; the  *)
(* variables a specification does not use stay at their idle values.       *)
(*   SpecViterbi      viterbi_decode on bounded (logPi, logT, logE)        *)
(*   SpecReconstruct  reconstruct_temporal_action_sequence                 *)
(*                                                                         *)
(* Conventions: state ids and sequence positions are 1-based here (0-based *)
(* in the Python source); log-scores and similarity scores are integers    *)
(* (the source uses floats; sums and comparisons are exact here).          *)
(***************************************************************************)
EXTENDS Integers, Sequences, FiniteSets, TLC

VARIABLES
    \* ---- viterbi_decode ----
    logPi,                  \* initial log-prior, one entry per state
    log_transition_matrix,  \* K x K, [i][j] = log P(i -> j)
    log_emission_matrix,    \* M x K, [t][k]
    best_path,              \* the decoded path (<<>> before decoding)
    vpc,                    \* "off" | "input" | "decoded"
    \* ---- reconstruct_temporal_action_sequence ----
    best_path_ids,          \* the path handed to reconstruction
    original_input_sequence,\* <<[label, start, end], ...>> one per window
    merge_consecutive,      \* BOOLEAN flag
    smoothed,               \* the returned sequence (<<>> until returned)
    rpc,                    \* "off" | "input" | "done" | "ValueError"
    \* ---- hybrid retrieval (HybridRetriever over the vector index) ----
    signal_ranking,         \* the index's hits for the signal vector, best first
    semantic_ranking,       \* the index's hits for the semantic vector, best first
    w_signal,               \* clip_weight / clap_weight
    w_semantic,             \* description_weight / transcript_weight
    limit,                  \* limit / top_k
    score_threshold,        \* Optional score: None or Some(t)
    final_results_with_combined_scores, \* the merged candidates before the sort
    retrieved,              \* Optional list of [id, score]: None or Some(list)
    hpc,                    \* "off" | "input" | the call that returned
    \* ---- the persisted cache file (pipeline_cache.json) ----
    file_exists,            \* os.path.exists(cache_file_path)
    file_bytes,             \* the file's content, a sequence of tokens
    flock_sh,               \* the processes holding LOCK_SH on the file
    flock_ex,               \* the processes holding LOCK_EX (at most one)
    \* ---- one JsonCache per process (cache_manager.py) ----
    cache_data,             \* [process -> ordered dict: <<  <<key, value>>, ... >>]
    wbuf,                   \* [process -> tokens buffered in the open file object]
    wpos,                   \* [process -> offset of that file object]
    set_key,                \* [process -> key of its set_item call]
    set_value,              \* [process -> value of its set_item call]
    cpc,                    \* [process -> position in __init__ / set_item]
    \* ---- Executor.run (executor_agent.py) ----
    video_id,               \* the request's video id, "" when missing
    selected_tool_names,    \* line 134
    tool_idx,               \* position of the loop of line 145
    tool_outputs,           \* the dict of line 125, in insertion order
    retrieved_audio_segments_cache,     \* line 126
    retrieved_video_keyframes_cache,    \* line 127
    audio_queries,          \* calls of retrieve_relevant_audio_segments in this run
    keyframe_queries,       \* calls of retrieve_relevant_keyframes in this run
    segmenter_runs,         \* calls of the temporal tool's run in this run
    attempts,               \* what happened to each selected tool, in order
    stored,                 \* [video id -> the timeline a run has stored, or None]
    stored_at_start,        \* `stored` when the current run started
    epc,                    \* "off" | "idle" | "running" | "returned"
    \* ---- extract_keyframes_by_clustering (video_processor.py) ----
    candidate_timestamps,   \* timestamp of each sampled frame, in sampling order
    embeddings_np,          \* Optional: None, or Some(one embedding per frame)
    num_keyframes,          \* K, the desired number of keyframes
    cluster_labels,         \* kmeans.fit_predict: the cluster of each frame
    selected_keyframes,     \* the returned list of <<frame index, timestamp>>
    kpc,                    \* "off" | "sampled" | the branch that returned
    \* ---- generate_overlapping_clip_time_segments (temporal_utils.py) ----
    video_duration,         \* total_frames / fps
    num_clips,              \* M
    clip_stride,            \* S
    segments,               \* the returned list of <<start, end>>, in hundredths
    wpc,                    \* "off" | "input" | "returned" | "RuntimeError"
    \* ---- build_transition_matrix (viterbi_decoding_utils.py) ----
    vocabulary,             \* action_labels_list, the argument
    allowed_successors_map, \* [label -> set of successor labels]
    p_self,                 \* in units of 1/PSelfSteps
    epsilon_floor,          \* a fraction <<numerator, denominator>>
    T,                      \* the returned matrix of fractions (<<>> before)
    tpc,                    \* "off" | "input" | "built"
    \* ---- retrying calls of the model endpoint (gemini_utils.py) ----
    retry_mode,             \* "function" | "batch"
    max_retries,            \* the attempt cap
    attempt,                \* the loop index (function) / attempt number (batch)
    attempt_log,            \* the outcome of every call made so far
    response,               \* Optional: the text returned
    gpc,                    \* "off" | "start" | "calling" | "returned" | "raised"
    \* ---- generate_temporal_action_segments_grid_wise ----
    segmenter_action_labels,\* list(action_vocabulary.keys()), line 72
    action_labels_successors_map,   \* [label -> set of successor labels]
    grid_images_result,     \* Optional: None, or Some(the windows <<start, end>>)
    temporal_sequence,      \* <<observed label, window>>, one per oracle call
    smoothed_temporal_sequence,     \* the returned timeline (<<>> before)
    spc,                    \* "off" | "start" | "labelling" | "returned" | an error
    \* ---- TemporalActionSegmentationTool.run ----
    video_file_exists,      \* os.path.exists(video_file_path)
    cap_opened,             \* cap.isOpened()
    formatted_output,       \* Optional: None, or Some(the formatted timeline)
    run_pc,                 \* "off" | "start" | "windowing" | "labelling" | "returned"
    \* ---- GeminiImageBatchProcessor.process_batch under KeyframeCaptionerTool.run ----
    pil_images,             \* the keyframes handed to process_batch, in input order
    futures,                \* one per image: [state, attempts, result]
    finish_order,           \* the images' positions in the order their workers finished
    keyframe_description_results,   \* what list(pool.map(...)) has consumed so far
    captioner_output,       \* Optional: None, or Some(the tool's formatted output)
    bpc                     \* "off" | "mapping" | "raising" | "returned" | "caught"

viterbiVars == <<logPi, log_transition_matrix, log_emission_matrix, best_path, vpc>>
reconVars   == <<best_path_ids, original_input_sequence, merge_consecutive, smoothed, rpc>>
hybridVars  == <<signal_ranking, semantic_ranking, w_signal, w_semantic, limit,
                 score_threshold, final_results_with_combined_scores, retrieved, hpc>>
fileVars    == <<file_exists, file_bytes, flock_sh, flock_ex>>
cacheVars   == <<cache_data, wbuf, wpos, set_key, set_value, cpc>>
execVars    == <<video_id, selected_tool_names, tool_idx, tool_outputs,
                 retrieved_audio_segments_cache, retrieved_video_keyframes_cache,
                 audio_queries, keyframe_queries, segmenter_runs, attempts, stored,
                 stored_at_start, epc>>
keyframeVars == <<candidate_timestamps, embeddings_np, num_keyframes, cluster_labels,
                   selected_keyframes, kpc>>
windowVars  == <<video_duration, num_clips, clip_stride, segments, wpc>>
transitionVars == <<vocabulary, allowed_successors_map, p_self, epsilon_floor, T, tpc>>
retryVars   == <<retry_mode, max_retries, attempt, attempt_log, response, gpc>>
segmenterVars == <<segmenter_action_labels, action_labels_successors_map, grid_images_result,
                    temporal_sequence, smoothed_temporal_sequence, spc>>
toolVars    == <<video_file_exists, cap_opened, formatted_output, run_pc>>
batchVars   == <<pil_images, futures, finish_order, keyframe_description_results,
                 captioner_output, bpc>>
extraVars   == <<keyframeVars, windowVars, transitionVars, retryVars, segmenterVars,
                 toolVars, batchVars>>
vars == <<viterbiVars, reconVars, hybridVars, fileVars, cacheVars, execVars, extraVars>>

ViterbiIdle ==
    /\ logPi = <<>> /\ log_transition_matrix = <<>> /\ log_emission_matrix = <<>>
    /\ best_path = <<>> /\ vpc = "off"

ReconIdle ==
    /\ best_path_ids = <<>> /\ original_input_sequence = <<>>
    /\ merge_consecutive = TRUE /\ smoothed = <<>> /\ rpc = "off"

HybridIdle ==
    /\ signal_ranking = <<>> /\ semantic_ranking = <<>> /\ w_signal = 0 /\ w_semantic = 0
    /\ limit = 0 /\ score_threshold = <<>> /\ final_results_with_combined_scores = <<>>
    /\ retrieved = <<>> /\ hpc = "off"

WritersIdle ==
    /\ flock_sh = {} /\ flock_ex = {}
    /\ wbuf = <<>> /\ wpos = <<>> /\ set_key = <<>> /\ set_value = <<>> /\ cpc = <<>>
CacheIdle ==
    /\ file_exists = FALSE /\ file_bytes = <<>> /\ cache_data = <<>>
    /\ WritersIdle
KeyframeIdle ==
    /\ candidate_timestamps = <<>> /\ embeddings_np = <<>> /\ num_keyframes = 0
    /\ cluster_labels = <<>> /\ selected_keyframes = <<>> /\ kpc = "off"
WindowIdle ==
    /\ video_duration = 0 /\ num_clips = 0 /\ clip_stride = 0 /\ segments = <<>>
    /\ wpc = "off"
TransitionIdle ==
    /\ vocabulary = <<>> /\ allowed_successors_map = <<>> /\ p_self = 0
    /\ epsilon_floor = <<>> /\ T = <<>> /\ tpc = "off"
RetryIdle ==
    /\ retry_mode = "" /\ max_retries = 0 /\ attempt = 0 /\ attempt_log = <<>>
    /\ response = <<>> /\ gpc = "off"
SegmenterIdle ==
    /\ segmenter_action_labels = <<>> /\ action_labels_successors_map = <<>>
    /\ grid_images_result = <<>> /\ temporal_sequence = <<>>
    /\ smoothed_temporal_sequence = <<>> /\ spc = "off"
ToolIdle ==
    /\ video_file_exists = FALSE /\ cap_opened = FALSE /\ formatted_output = <<>>
    /\ run_pc = "off"
BatchIdle ==
    /\ pil_images = <<>> /\ futures = <<>> /\ finish_order = <<>>
    /\ keyframe_description_results = <<>> /\ captioner_output = <<>> /\ bpc = "off"
ExtraIdle ==
    /\ KeyframeIdle /\ WindowIdle /\ TransitionIdle /\ RetryIdle /\ SegmenterIdle
    /\ ToolIdle /\ BatchIdle

ExecIdle ==
    /\ video_id = "" /\ selected_tool_names = <<>> /\ tool_idx = 0 /\ tool_outputs = <<>>
    /\ retrieved_audio_segments_cache = <<>> /\ retrieved_video_keyframes_cache = <<>>
    /\ audio_queries = 0 /\ keyframe_queries = 0 /\ segmenter_runs = 0
    /\ attempts = <<>> /\ stored = <<>> /\ stored_at_start = <<>> /\ epc = "off"

(***************************************************************************)
(* Bounds and input domains                                                *)
(***************************************************************************)
MaxM == 3                       \* most windows (rows of the emission matrix)
Times == {0, 1, 2}              \* window start and end times
action_labels_list == <<"A", "B">>
StateIds == 1..Len(action_labels_list)
LogScores == {-1, 0}            \* log-prior and log-emission entries
TransScores == {-2, -1, 0}      \* log-transition entries

SeqsOfLen(S, n) == [1..n -> S]
SeqsUpTo(S, lo, hi) == UNION {SeqsOfLen(S, n) : n \in lo..hi}

(***************************************************************************)
(* viterbi_decode (viterbi_decoding_utils.py:220-260)                      *)
(***************************************************************************)
\* np.argmax: the first index holding the maximum
ArgMax(f) ==
    CHOOSE i \in DOMAIN f :
        /\ \A j \in DOMAIN f : f[j] <= f[i]
        /\ \A j \in DOMAIN f : f[j] = f[i] => i <= j

\* One recurrence step (lines 247-252): from row V[t-1] to the pair
\* <<V[t], backptr[t]>>.
ViterbiStep(Vprev, logT, Erow) ==
    CHOOSE r \in {<<[j \in 1..Len(Vprev) |-> Vprev[bp[j]] + logT[bp[j]][j] + Erow[j]], bp>> :
                     bp \in {[j \in 1..Len(Vprev) |->
                                 ArgMax([i \in 1..Len(Vprev) |-> Vprev[i] + logT[i][j]])]}} : TRUE

\* The tables V and backptr, rows 1..t, as a sequence of <<Vrow, bprow>>.
\* (The one-element sets bind a value once, so that it is not recomputed.)
RECURSIVE ViterbiTable(_, _, _, _)
ViterbiTable(Pi, logT, logE, t) ==
    IF t = 1
    THEN <<  <<[j \in 1..Len(Pi) |-> Pi[j] + logE[1][j]],
               [j \in 1..Len(Pi) |-> 0]>>  >>
    ELSE CHOOSE r \in {Append(tab, ViterbiStep(tab[t - 1][1], logT, logE[t])) :
                          tab \in {ViterbiTable(Pi, logT, logE, t - 1)}} : TRUE

\* Backtrack (lines 255-258): positions t..T of the path, given position t.
RECURSIVE Backtrack(_, _, _)
Backtrack(tab, t, s) ==
    IF t = 1 THEN <<s>>
    ELSE Backtrack(tab, t - 1, tab[t][2][s]) \o <<s>>

\* A greedy decoder that ignores the transition matrix: the argmax of each
\* row of prior + emission.
viterbi_decode_greedy(Pi, logT, logE) ==
    [t \in 1..Len(logE) |->
        ArgMax([k \in 1..Len(Pi) |-> (IF t = 1 THEN Pi[k] ELSE 0) + logE[t][k]])]

viterbi_decode(Pi, logT, logE) ==
    CHOOSE p \in {Backtrack(tab, Len(logE), ArgMax(tab[Len(logE)][1])) :
                     tab \in {ViterbiTable(Pi, logT, logE, Len(logE))}} : TRUE

\* Total score of a state sequence s (the quantity Viterbi maximises).
RECURSIVE PathScoreUpTo(_, _, _, _, _)
PathScoreUpTo(Pi, logT, logE, s, t) ==
    IF t = 1 THEN Pi[s[1]] + logE[1][s[1]]
    ELSE PathScoreUpTo(Pi, logT, logE, s, t - 1) + logT[s[t - 1]][s[t]] + logE[t][s[t]]

PathScore(Pi, logT, logE, s) == PathScoreUpTo(Pi, logT, logE, s, Len(s))

ViterbiInit ==
    /\ logPi \in SeqsOfLen(LogScores, Len(action_labels_list))
    /\ log_transition_matrix
         \in SeqsOfLen(SeqsOfLen(TransScores, Len(action_labels_list)), Len(action_labels_list))
    /\ log_emission_matrix
         \in SeqsUpTo(SeqsOfLen(LogScores, Len(action_labels_list)), 1, MaxM)
    /\ best_path = <<>>
    /\ vpc = "input"
    /\ ReconIdle /\ HybridIdle /\ CacheIdle /\ ExecIdle /\ ExtraIdle

Decode ==
    /\ vpc = "input"
    /\ best_path' = viterbi_decode(logPi, log_transition_matrix, log_emission_matrix)
    /\ vpc' = "decoded"
    /\ UNCHANGED <<logPi, log_transition_matrix, log_emission_matrix, reconVars, hybridVars,
                   fileVars, cacheVars, execVars, extraVars>>

ViterbiNext == Decode

SpecViterbi == ViterbiInit /\ [][ViterbiNext]_vars

(***************************************************************************)
(* C1: the path returned by viterbi_decode has a total score at least that *)
(* of every other state sequence of the same length (a most-likely path).  *)
(***************************************************************************)
ViterbiOptimal ==
    vpc = "decoded" =>
        /\ Len(best_path) = Len(log_emission_matrix)
        /\ \A best \in {PathScore(logPi, log_transition_matrix, log_emission_matrix, best_path)} :
              \A s \in SeqsOfLen(StateIds, Len(log_emission_matrix)) :
                 PathScore(logPi, log_transition_matrix, log_emission_matrix, s) <= best

\* A decoded input on which the transition matrix decides: the optimum
\* differs from the per-window argmax of the emissions, and some other
\* sequence scores strictly less.
ViterbiOptimalWitness ==
    /\ vpc = "decoded"
    /\ Len(best_path) >= 2
    /\ best_path # viterbi_decode_greedy(logPi, log_transition_matrix, log_emission_matrix)
    /\ \E s \in SeqsOfLen(StateIds, Len(best_path)) :
          PathScore(logPi, log_transition_matrix, log_emission_matrix, s)
            < PathScore(logPi, log_transition_matrix, log_emission_matrix, best_path)

(***************************************************************************)
(* reconstruct_temporal_action_sequence                                    *)
(* (viterbi_decoding_utils.py:262-360)                                     *)
(* A sequence entry is <<label, <<start_time, end_time>>>> as in the code. *)
(***************************************************************************)
\* get_action_label_mappings (temporal_utils.py:367-368): id -> label
id_to_action_label_map == [i \in StateIds |-> action_labels_list[i]]

\* the decoded labels laid on the windows taken from the last to the first
unmerged_smoothed_sequence_mirrored(path, seq) ==
    [i \in 1..Len(path) |-> <<id_to_action_label_map[path[i]], seq[Len(path) + 1 - i][2]>>]

\* Step 1 (lines 297-317): the decoded label on each window's own timestamps
unmerged_smoothed_sequence(path, seq) ==
    [i \in 1..Len(path) |-> <<id_to_action_label_map[path[i]], seq[i][2]>>]

\* Step 2 (lines 326-358): the merge loop from position i on, carrying the
\* segments finalised so far and the open segment.
\* The merge loop with re-clipping: a new segment may not start before the
\* previous one ends.
RECURSIVE MergeLoopClipped(_, _, _, _, _, _)
MergeLoopClipped(u, i, final, current_label, current_start_time, current_end_time) ==
    IF i > Len(u)
    THEN Append(final, <<current_label, <<current_start_time, current_end_time>>>>)
    ELSE IF u[i][1] = current_label
         THEN MergeLoopClipped(u, i + 1, final, current_label, current_start_time, u[i][2][2])
         ELSE MergeLoopClipped(u, i + 1,
                        Append(final, <<current_label, <<current_start_time, current_end_time>>>>),
                        u[i][1],
                        IF u[i][2][1] < current_end_time THEN current_end_time ELSE u[i][2][1],
                        u[i][2][2])

RECURSIVE MergeLoop(_, _, _, _, _, _)
MergeLoop(u, i, final, current_label, current_start_time, current_end_time) ==
    IF i > Len(u)
    THEN Append(final, <<current_label, <<current_start_time, current_end_time>>>>)
    ELSE IF u[i][1] = current_label
         THEN MergeLoop(u, i + 1, final, current_label, current_start_time, u[i][2][2])
         ELSE MergeLoop(u, i + 1,
                        Append(final, <<current_label, <<current_start_time, current_end_time>>>>),
                        u[i][1], u[i][2][1], u[i][2][2])

\* A merge that joins two windows only when they are contiguous in time.
RECURSIVE MergeContiguousOnly(_, _)
MergeContiguousOnly(u, i) ==
    IF i > Len(u) THEN <<>>
    ELSE LET rest == MergeContiguousOnly(u, i + 1)
         IN  IF rest # <<>> /\ rest[1][1] = u[i][1] /\ rest[1][2][1] = u[i][2][2]
             THEN <<  <<u[i][1], <<u[i][2][1], rest[1][2][2]>>>>  >> \o Tail(rest)
             ELSE <<u[i]>> \o rest

merge_sequence_contiguous(u) == MergeContiguousOnly(u, 1)

merge_sequence(u) ==
    IF u = <<>> THEN <<>>
    ELSE MergeLoop(u, 2, <<>>, u[1][1], u[1][2][1], u[1][2][2])

ReconInit ==
    /\ \E n \in 0..MaxM :
         /\ \E o \in {action_labels_list[k] : k \in StateIds} :
               original_input_sequence
                  \in {[i \in 1..n |-> <<o, w[i]>>] :
                         w \in SeqsOfLen({<<a, b>> \in Times \X Times : a <= b}, n)}
         /\ best_path_ids \in SeqsOfLen(StateIds, n) \cup SeqsOfLen(StateIds, n - 1)
    /\ merge_consecutive \in BOOLEAN
    /\ smoothed = <<>>
    /\ rpc = "input"
    /\ ViterbiIdle /\ HybridIdle /\ CacheIdle /\ ExecIdle /\ ExtraIdle

\* lines 292-295: a length mismatch raises ValueError
ReconstructRaises ==
    /\ rpc = "input"
    /\ Len(best_path_ids) # Len(original_input_sequence)
    /\ rpc' = "ValueError"
    /\ UNCHANGED <<best_path_ids, original_input_sequence, merge_consecutive, smoothed,
                   viterbiVars, hybridVars, fileVars, cacheVars, execVars, extraVars>>

\* lines 297-360
Reconstruct ==
    /\ rpc = "input"
    /\ Len(best_path_ids) = Len(original_input_sequence)
    /\ smoothed' =
         LET u == unmerged_smoothed_sequence(best_path_ids, original_input_sequence)
         IN  IF merge_consecutive THEN merge_sequence(u) ELSE u
    /\ rpc' = "done"
    /\ UNCHANGED <<best_path_ids, original_input_sequence, merge_consecutive, viterbiVars,
                   hybridVars, fileVars, cacheVars, execVars, extraVars>>

ReconNext == ReconstructRaises \/ Reconstruct

SpecReconstruct == ReconInit /\ [][ReconNext]_vars

(***************************************************************************)
(* C2: with merge_consecutive = TRUE no two adjacent segments of the       *)
(* returned Timeline carry the same label.                                 *)
(***************************************************************************)
NoAdjacentSameLabel ==
    (rpc = "done" /\ merge_consecutive) =>
        \A i \in 1..(Len(smoothed) - 1) : smoothed[i][1] # smoothed[i + 1][1]

\* A merged Timeline of several segments in which windows were merged, two
\* of them not contiguous in time.
NoAdjacentSameLabelWitness ==
    /\ rpc = "done" /\ merge_consecutive
    /\ Len(smoothed) >= 2
    /\ Len(smoothed) < Len(best_path_ids)
    /\ \E i \in 1..(Len(best_path_ids) - 1) :
          /\ best_path_ids[i] = best_path_ids[i + 1]
          /\ original_input_sequence[i][2][2] # original_input_sequence[i + 1][2][1]

(***************************************************************************)
(* C3: with merge_consecutive = TRUE the segments are exactly the maximal  *)
(* runs of equal decoded labels, in order; a segment starts at the start   *)
(* of its run's first window and ends at the end of its run's last window, *)
(* both taken unchanged from the windows (no clipping).                    *)
(***************************************************************************)
RunStarts(path) == {i \in 1..Len(path) : i = 1 \/ path[i] # path[i - 1]}

NthRunStart(path, k) ==
    CHOOSE i \in RunStarts(path) : Cardinality({j \in RunStarts(path) : j <= i}) = k

RunEnd(path, s) ==
    CHOOSE e \in s..Len(path) :
        /\ \A m \in s..e : path[m] = path[s]
        /\ (e = Len(path) \/ path[e + 1] # path[s])

SegmentsAreMaximalRuns ==
    (rpc = "done" /\ merge_consecutive) =>
        /\ Len(smoothed) = Cardinality(RunStarts(best_path_ids))
        /\ \A k \in 1..Len(smoothed) :
              LET s == NthRunStart(best_path_ids, k)
                  e == RunEnd(best_path_ids, s)
              IN  smoothed[k] = <<action_labels_list[best_path_ids[s]],
                                  <<original_input_sequence[s][2][1],
                                    original_input_sequence[e][2][2]>>>>

\* A run of two or more windows was merged, and two adjacent segments
\* overlap in time.
SegmentsAreMaximalRunsWitness ==
    /\ rpc = "done" /\ merge_consecutive
    /\ \E k \in 1..Len(smoothed) :
          RunEnd(best_path_ids, NthRunStart(best_path_ids, k))
             > NthRunStart(best_path_ids, k)
    /\ \E k \in 1..(Len(smoothed) - 1) : smoothed[k + 1][2][1] < smoothed[k][2][2]

(***************************************************************************)
(* Hybrid retrieval                                                        *)
(*   search_audio_segments_hybrid (audio_segment_retriever.py:176-287)     *)
(*   search_keyframes_hybrid (video_keyframe_retriever.py:178-289)         *)
(*   retrieve_relevant_audio_segments / retrieve_relevant_keyframes        *)
(*   (vector_store/utils.py:306-390, 89-204)                               *)
(* A point is [id, score, payload]; a search result is [id, score].        *)
(* Similarity scores and weights are integers (the source's floats scaled).*)
(***************************************************************************)
MaxHits == 2                    \* most hits the index holds per vector field
MaxLimit == 2                   \* largest limit / top_k requested
PointIds == {1, 2, 3}
Similarities == {1, 2}
Weights == {1, 2}
Thresholds == {3}
\* An Optional value: None is <<>>, a value x is <<x>>.
None == <<>>
Some(x) == <<x>>
initial_fetch_multiplier == 3

Min(a, b) == IF a <= b THEN a ELSE b

\* What the vector index can return for one query: distinct ids, ordered by
\* descending similarity (equal similarities in any order), each with the
\* payload stored at indexing time.
Rankings ==
    {r \in SeqsUpTo([id : PointIds, score : Similarities, payload : {"metadata"}], 0, MaxHits) :
        /\ \A i, j \in 1..Len(r) : i # j => r[i].id # r[j].id
        /\ \A i \in 1..(Len(r) - 1) : r[i].score >= r[i + 1].score}

\* QdrantClient.search (qdrant_client.py:144-193): the best `n` hits
search(ranking, n) == SubSeq(ranking, 1, Min(n, Len(ranking)))

IdsOf(points) == {points[i].id : i \in 1..Len(points)}
PointOf(points, id) == points[CHOOSE i \in 1..Len(points) : points[i].id = id]

\* The keys of combined_scores in dict insertion order: the signal hits in
\* their order, then the semantic hits not seen before in theirs.
RECURSIVE NewIds(_, _, _)
NewIds(points, i, seen) ==
    IF i > Len(points) THEN <<>>
    ELSE IF points[i].id \in seen THEN NewIds(points, i + 1, seen)
         ELSE <<points[i].id>> \o NewIds(points, i + 1, seen \cup {points[i].id})

\* the keys, mutated: the hits found by the semantic query alone are forgotten
signal_keys_only(signal, semantic) == NewIds(signal, 1, {})

\* the keys of combined_scores after both loops (lines 224-256)
combined_keys(signal, semantic) ==
    NewIds(signal, 1, {}) \o NewIds(semantic, 1, IdsOf(signal))

\* combined_scores[id] after both loops (lines 224-256)
combined_scores(signal, semantic, id) ==
    [payload |-> IF id \in IdsOf(signal) THEN PointOf(signal, id).payload
                 ELSE PointOf(semantic, id).payload,
     signal_score |-> IF id \in IdsOf(signal) THEN PointOf(signal, id).score ELSE 0,
     semantic_score |-> IF id \in IdsOf(semantic) THEN PointOf(semantic, id).score ELSE 0]

\* the candidates, mutated: the signal score is subtracted
RECURSIVE build_final_results_inverted(_, _, _, _, _, _)
build_final_results_inverted(keys, i, signal, semantic, ws, wt) ==
    IF i > Len(keys) THEN <<>>
    ELSE LET d == combined_scores(signal, semantic, keys[i])
         IN  (IF d.payload = "None" THEN <<>>
              ELSE <<[id |-> keys[i],
                      score |-> d.semantic_score * wt - d.signal_score * ws]>>)
             \o build_final_results_inverted(keys, i + 1, signal, semantic, ws, wt)

\* lines 259-283: one (final_score, SearchResult) per key, a key whose
\* payload is None being skipped
RECURSIVE build_final_results(_, _, _, _, _, _)
build_final_results(keys, i, signal, semantic, ws, wt) ==
    IF i > Len(keys) THEN <<>>
    ELSE LET d == combined_scores(signal, semantic, keys[i])
         IN  (IF d.payload = "None" THEN <<>>
              ELSE <<[id |-> keys[i],
                      score |-> d.signal_score * ws + d.semantic_score * wt]>>)
             \o build_final_results(keys, i + 1, signal, semantic, ws, wt)

\* the sort, mutated: ascending
SortAscStable(l) ==
    [k \in 1..Len(l) |->
        l[CHOOSE i \in 1..Len(l) :
            Cardinality({j \in 1..Len(l) :
                \/ l[j].score < l[i].score
                \/ (l[j].score = l[i].score /\ j < i)}) = k - 1]]

\* list.sort(key=score, reverse=True) (line 285): stable, so equal scores
\* keep the order they were inserted in
SortDescStable(l) ==
    [k \in 1..Len(l) |->
        l[CHOOSE i \in 1..Len(l) :
            Cardinality({j \in 1..Len(l) :
                \/ l[j].score > l[i].score
                \/ (l[j].score = l[i].score /\ j < i)}) = k - 1]]

\* lines 221-283: both queries, then the merged candidates in insertion order
merge_candidates(signal_all, semantic_all, lim, ws, wt) ==
    LET signal == search(signal_all, lim * initial_fetch_multiplier)
        semantic == search(semantic_all, lim * initial_fetch_multiplier)
    IN  build_final_results(combined_keys(signal, semantic), 1, signal, semantic, ws, wt)

\* lines 285-286: sort by descending final score, keep the first `lim`
rank_and_truncate(final, lim) ==
    SubSeq(SortDescStable(final), 1, Min(lim, Len(final)))

\* search_audio_segments_hybrid / search_keyframes_hybrid
search_hybrid(signal_all, semantic_all, lim, ws, wt) ==
    rank_and_truncate(merge_candidates(signal_all, semantic_all, lim, ws, wt), lim)

\* search_audio_segments_by_transcript / search_keyframes_by_description
\* search_keyframes_clip / search_audio_segments_clap
\* (video_keyframe_retriever.py:119-147, audio_segment_retriever.py:147-174)
search_by_signal(signal_all, lim) ==
    LET raw == search(signal_all, lim)
    IN  [i \in 1..Len(raw) |-> [id |-> raw[i].id, score |-> raw[i].score]]

search_by_semantic(semantic_all, lim) ==
    LET raw == search(semantic_all, lim)
    IN  [i \in 1..Len(raw) |-> [id |-> raw[i].id, score |-> raw[i].score]]

\* utils.py:358-367 and 143-152: the empty result, then the score filter
FilterByThreshold(results, threshold) ==
    IF results = <<>> THEN <<>>
    ELSE IF threshold = None THEN results
    ELSE SelectSeq(results, LAMBDA r : r.score >= threshold[1])

HybridInit ==
    /\ signal_ranking \in Rankings
    /\ semantic_ranking \in Rankings
    /\ w_signal \in Weights
    /\ w_semantic \in Weights
    /\ limit \in 1..MaxLimit
    /\ score_threshold \in {Some(t) : t \in Thresholds} \cup {None}
    /\ final_results_with_combined_scores = <<>>
    /\ retrieved = None
    /\ hpc = "input"
    /\ ViterbiIdle /\ ReconIdle /\ CacheIdle /\ ExecIdle /\ ExtraIdle

MergeRecorded ==
    final_results_with_combined_scores' =
        merge_candidates(signal_ranking, semantic_ranking, limit, w_signal, w_semantic)

HybridUnchanged ==
    UNCHANGED <<signal_ranking, semantic_ranking, w_signal, w_semantic, limit,
                score_threshold, viterbiVars, reconVars, fileVars, cacheVars, execVars, extraVars>>

\* AudioSegmentRetriever.search_audio_segments_hybrid called directly
SearchAudioSegmentsHybrid ==
    /\ hpc = "input"
    /\ retrieved' = Some(search_hybrid(signal_ranking, semantic_ranking, limit,
                                        w_signal, w_semantic))
    /\ hpc' = "search_audio_segments_hybrid"
    /\ MergeRecorded
    /\ HybridUnchanged

\* VideoKeyframeRetriever.search_keyframes_hybrid called directly
SearchKeyframesHybrid ==
    /\ hpc = "input"
    /\ retrieved' = Some(search_hybrid(signal_ranking, semantic_ranking, limit,
                                        w_signal, w_semantic))
    /\ hpc' = "search_keyframes_hybrid"
    /\ MergeRecorded
    /\ HybridUnchanged

\* retrieve_relevant_audio_segments(search_strategy="hybrid")
RetrieveAudioHybrid ==
    /\ hpc = "input"
    /\ retrieved' = Some(FilterByThreshold(
                       search_hybrid(signal_ranking, semantic_ranking, limit, w_signal, w_semantic),
                       score_threshold))
    /\ hpc' = "retrieve_audio_hybrid"
    /\ MergeRecorded
    /\ HybridUnchanged

\* retrieve_relevant_audio_segments with any other search_strategy: the
\* else of utils.py:348-353 calls search_audio_segments_by_transcript
RetrieveAudioTranscript ==
    /\ hpc = "input"
    /\ retrieved' = Some(FilterByThreshold(search_by_semantic(semantic_ranking, limit),
                                            score_threshold))
    /\ \E search_strategy \in {"clap", "transcript"} :
          hpc' = IF search_strategy = "clap" THEN "retrieve_audio_clap"
                 ELSE "retrieve_audio_transcript"
    /\ UNCHANGED final_results_with_combined_scores
    /\ HybridUnchanged

\* retrieve_relevant_keyframes(search_strategy="hybrid"): the call passes
\* query_description_embedding=, a keyword search_keyframes_hybrid does not
\* take (utils.py:126-134 against video_keyframe_retriever.py:178-188); the
\* TypeError is caught at utils.py:202-204 and None is returned.
RetrieveKeyframesHybrid ==
    /\ hpc = "input"
    /\ retrieved' = None
    /\ hpc' = "retrieve_keyframes_hybrid"
    /\ UNCHANGED final_results_with_combined_scores
    /\ HybridUnchanged

\* retrieve_relevant_keyframes with any other search_strategy: the else
\* of utils.py:135-140 calls search_keyframes_by_description
RetrieveKeyframesDescription ==
    /\ hpc = "input"
    /\ retrieved' = Some(FilterByThreshold(search_by_semantic(semantic_ranking, limit),
                                            score_threshold))
    /\ \E search_strategy \in {"clip", "description"} :
          hpc' = IF search_strategy = "clip" THEN "retrieve_keyframes_clip"
                 ELSE "retrieve_keyframes_description"
    /\ UNCHANGED final_results_with_combined_scores
    /\ HybridUnchanged

HybridNext ==
    \/ SearchAudioSegmentsHybrid
    \/ SearchKeyframesHybrid
    \/ RetrieveAudioHybrid
    \/ RetrieveAudioTranscript
    \/ RetrieveKeyframesHybrid
    \/ RetrieveKeyframesDescription

SpecHybrid == HybridInit /\ [][HybridNext]_vars

(***************************************************************************)
(* C8: after a hybrid search every id returned by the signal query, the    *)
(* semantic query or both is a merged candidate, exactly once, with        *)
(* final_score = signal_score * w_signal + semantic_score * w_semantic,    *)
(* a modality that did not return the id counting as 0.                    *)
(***************************************************************************)
HybridCalls == {"search_audio_segments_hybrid", "search_keyframes_hybrid"}

FetchedSignal == search(signal_ranking, limit * initial_fetch_multiplier)
FetchedSemantic == search(semantic_ranking, limit * initial_fetch_multiplier)

ScoreIn(points, id) ==
    IF \E i \in 1..Len(points) : points[i].id = id
    THEN (CHOOSE p \in {points[i] : i \in 1..Len(points)} : p.id = id).score
    ELSE 0

ExpectedFinalScore(id) ==
    ScoreIn(FetchedSignal, id) * w_signal + ScoreIn(FetchedSemantic, id) * w_semantic

HybridMergeScore ==
    hpc \in HybridCalls =>
        /\ \A id \in IdsOf(FetchedSignal) \cup IdsOf(FetchedSemantic) :
              Cardinality({i \in 1..Len(final_results_with_combined_scores) :
                              final_results_with_combined_scores[i].id = id}) = 1
        /\ \A i \in 1..Len(final_results_with_combined_scores) :
              /\ final_results_with_combined_scores[i].id
                    \in IdsOf(FetchedSignal) \cup IdsOf(FetchedSemantic)
              /\ final_results_with_combined_scores[i].score
                    = ExpectedFinalScore(final_results_with_combined_scores[i].id)
        /\ \A i \in 1..Len(retrieved[1]) :
              retrieved[1][i].score = ExpectedFinalScore(retrieved[1][i].id)

\* One id found by the signal query alone, one by the semantic query alone
\* and one by both, under unequal weights.
HybridMergeScoreWitness ==
    /\ hpc \in HybridCalls
    /\ w_signal # w_semantic
    /\ \E a, b, c \in IdsOf(final_results_with_combined_scores) :
          /\ a \in IdsOf(FetchedSignal) \ IdsOf(FetchedSemantic)
          /\ b \in IdsOf(FetchedSemantic) \ IdsOf(FetchedSignal)
          /\ c \in IdsOf(FetchedSignal) \cap IdsOf(FetchedSemantic)

(***************************************************************************)
(* C9: the list a hybrid retrieval returns is the merged candidates sorted *)
(* by non-increasing final_score, cut to at most `limit` entries, and then *)
(* filtered by score_threshold (when one is given).                        *)
(***************************************************************************)
\* `hits` is a threshold-filtered, limit-truncated, descending ranking of
\* the candidates `final`.
IsRankedCutFiltered(hits, final, lim, threshold) ==
    /\ \A i \in 1..(Len(hits) - 1) : hits[i].score >= hits[i + 1].score
    /\ \A i, j \in 1..Len(hits) : i # j => hits[i].id # hits[j].id
    /\ \E top \in SUBSET (1..Len(final)) :
          /\ Cardinality(top) = Min(lim, Len(final))
          /\ \A a \in top : \A b \in (1..Len(final)) \ top : final[a].score >= final[b].score
          /\ {hits[i] : i \in 1..Len(hits)}
                = {final[a] : a \in {x \in top : threshold = None
                                                    \/ final[x].score >= threshold[1]}}

HybridResultShape ==
    hpc \in {"retrieve_audio_hybrid", "retrieve_keyframes_hybrid"} =>
        /\ retrieved # None
        /\ IsRankedCutFiltered(
              retrieved[1],
              merge_candidates(signal_ranking, semantic_ranking, limit, w_signal, w_semantic),
              limit, score_threshold)

\* The same statement for the audio retrieval alone, which the code meets.
HybridResultShapeAudio ==
    hpc = "retrieve_audio_hybrid" =>
        /\ retrieved # None
        /\ IsRankedCutFiltered(retrieved[1], final_results_with_combined_scores,
                               limit, score_threshold)

(***************************************************************************)
(* C10: hits of equal final_score are ordered by id, so the result of a    *)
(* hybrid search does not depend on the order in which the two sub-queries *)
(* returned their hits.                                                    *)
(***************************************************************************)
SameHits(r1, r2) == {r1[i] : i \in 1..Len(r1)} = {r2[i] : i \in 1..Len(r2)}

TieBreakById ==
    hpc \in HybridCalls =>
        /\ \A i \in 1..(Len(retrieved[1]) - 1) :
              retrieved[1][i].score = retrieved[1][i + 1].score
                 => retrieved[1][i].id < retrieved[1][i + 1].id
        /\ \A s2 \in {r \in Rankings : SameHits(r, signal_ranking)} :
              \A t2 \in {r \in Rankings : SameHits(r, semantic_ranking)} :
                 search_hybrid(s2, t2, limit, w_signal, w_semantic) = retrieved[1]

(***************************************************************************)
(* The hybrid searches again, over a wider index: four points, cosine      *)
(* similarities that may be negative (the collections use Distance.COSINE, *)
(* video_keyframe_retriever.py:45-49, audio_segment_retriever.py:47-51,    *)
(* and the searches pass no score threshold), up to MaxSignalFetched hits  *)
(* of the signal sub-query and MaxFetched hits of the semantic one.        *)
(***************************************************************************)
MaxSignalFetched == 2
MaxFetched == 3
RerankIds == {1, 2, 3, 4}
SignalSimilarities == {1, 2}
SemanticSimilarities == {-1, 2}
RerankWeights == {1, 3}
RerankLimits == {2, 4}

RerankRankings(scores, n) ==
    {r \in SeqsUpTo([id : RerankIds, score : scores, payload : {"metadata"}], 0, n) :
        /\ \A i, j \in 1..Len(r) : i # j => r[i].id # r[j].id
        /\ \A i \in 1..(Len(r) - 1) : r[i].score >= r[i + 1].score}

RerankInit ==
    /\ signal_ranking \in RerankRankings(SignalSimilarities, MaxSignalFetched)
    /\ semantic_ranking \in RerankRankings(SemanticSimilarities, MaxFetched)
    /\ w_signal \in RerankWeights
    /\ w_semantic \in {0, 1}
    /\ limit \in RerankLimits
    /\ score_threshold = None
    /\ final_results_with_combined_scores = <<>>
    /\ retrieved = None
    /\ hpc = "input"
    /\ ViterbiIdle /\ ReconIdle /\ CacheIdle /\ ExecIdle /\ ExtraIdle

RerankNext ==
    \/ SearchAudioSegmentsHybrid
    \/ SearchKeyframesHybrid

SpecRerank == RerankInit /\ [][RerankNext]_vars

\* 1-based position of id in a result list, 0 when it is not in it
PosIn(hits, id) ==
    IF \E i \in 1..Len(hits) : hits[i].id = id
    THEN CHOOSE i \in 1..Len(hits) : hits[i].id = id
    ELSE 0

\* a is ranked no lower than b: when b is returned, a is returned before it
RankedNoLower(hits, a, b) ==
    PosIn(hits, b) # 0 => (PosIn(hits, a) # 0 /\ PosIn(hits, a) < PosIn(hits, b))

\* a was returned by both sub-queries, b by the signal sub-query only, with
\* equal signal scores
CompleteAndSignalOnly(a, b) ==
    /\ a \in IdsOf(FetchedSignal) \cap IdsOf(FetchedSemantic)
    /\ b \in IdsOf(FetchedSignal) \ IdsOf(FetchedSemantic)
    /\ ScoreIn(FetchedSignal, a) = ScoreIn(FetchedSignal, b)

(***************************************************************************)
(* C11 as stated: an entry returned by both sub-queries is ranked no lower *)
(* than an entry returned only by the signal sub-query whenever their      *)
(* signal scores are equal.                                                *)
(***************************************************************************)
CompleteEntryFirstAlways ==
    hpc \in HybridCalls =>
        \A a, b \in RerankIds :
            CompleteAndSignalOnly(a, b) => RankedNoLower(retrieved[1], a, b)

(***************************************************************************)
(* C11, amended: an entry returned by both sub-queries is ranked above an  *)
(* entry returned only by the signal sub-query whenever their signal       *)
(* scores are equal and the first entry's weighted semantic score          *)
(* (semantic_score * w_semantic) is positive.                              *)
(***************************************************************************)
CompleteEntryFirst ==
    hpc \in HybridCalls =>
        \A a, b \in RerankIds :
            (/\ CompleteAndSignalOnly(a, b)
             /\ ScoreIn(FetchedSemantic, a) * w_semantic > 0)
                => RankedNoLower(retrieved[1], a, b)

\* both entries are returned, the complete one after the other in the signal
\* sub-query's order and yet before it in the result
CompleteEntryFirstWitness ==
    /\ hpc \in HybridCalls
    /\ \E a, b \in RerankIds :
          /\ CompleteAndSignalOnly(a, b)
          /\ ScoreIn(FetchedSemantic, a) * w_semantic > 0
          /\ PosIn(FetchedSignal, b) < PosIn(FetchedSignal, a)
          /\ PosIn(retrieved[1], b) # 0
          /\ PosIn(retrieved[1], a) < PosIn(retrieved[1], b)

\* the signal score of a returned hit, 0 when the signal sub-query missed it
SignalScoreOf(id) == ScoreIn(FetchedSignal, id)

\* the k-th smallest signal score among the hits
KthSignalScore(hits, k) ==
    SignalScoreOf(hits[CHOOSE i \in 1..Len(hits) :
        Cardinality({j \in 1..Len(hits) :
            \/ SignalScoreOf(hits[j].id) < SignalScoreOf(hits[i].id)
            \/ (SignalScoreOf(hits[j].id) = SignalScoreOf(hits[i].id) /\ j < i)}) = k - 1].id)

\* the hit's signal score is above the median of the hits' signal scores
\* (the mean of the two middle ones when their number is even)
AboveMedianSignal(hits, id) ==
    2 * SignalScoreOf(id) >
        KthSignalScore(hits, (Len(hits) + 1) \div 2) + KthSignalScore(hits, Len(hits) \div 2 + 1)

\* no merged candidate has a higher signal score
TopSignal(id) ==
    \A other \in IdsOf(FetchedSignal) \cup IdsOf(FetchedSemantic) :
        SignalScoreOf(other) <= SignalScoreOf(id)

\* the hit is not at a lower rank position in hits2 than in hits
NotLowered(hits, hits2, id) ==
    PosIn(hits2, id) # 0 /\ PosIn(hits2, id) <= PosIn(hits, id)

(***************************************************************************)
(* C12 as stated: for fixed sub-query results and fixed w_semantic,        *)
(* increasing w_signal never moves to a lower rank position a returned hit *)
(* whose signal_score is above the median of the returned hits'            *)
(* signal_scores.                                                          *)
(***************************************************************************)
MergeMonotonicAboveMedian ==
    hpc \in HybridCalls =>
        \A w2 \in {w \in RerankWeights : w > w_signal} :
            \A hits2 \in {search_hybrid(signal_ranking, semantic_ranking, limit,
                                        w2, w_semantic)} :
                \A i \in 1..Len(retrieved[1]) :
                    AboveMedianSignal(retrieved[1], retrieved[1][i].id)
                        => NotLowered(retrieved[1], hits2, retrieved[1][i].id)

(***************************************************************************)
(* C12, amended: for fixed sub-query results and fixed w_semantic,         *)
(* increasing w_signal never moves to a lower rank position a returned hit *)
(* whose signal_score is the highest among the merged candidates.          *)
(***************************************************************************)
MergeMonotonicTopSignal ==
    hpc \in HybridCalls =>
        \A w2 \in {w \in RerankWeights : w > w_signal} :
            \A hits2 \in {search_hybrid(signal_ranking, semantic_ranking, limit,
                                        w2, w_semantic)} :
                \A i \in 1..Len(retrieved[1]) :
                    TopSignal(retrieved[1][i].id)
                        => NotLowered(retrieved[1], hits2, retrieved[1][i].id)

\* the hit with the highest signal score is not first, and a larger w_signal
\* moves it up
MergeMonotonicTopSignalWitness ==
    /\ hpc \in HybridCalls
    /\ \E w2 \in {w \in RerankWeights : w > w_signal} :
          \E i \in 2..Len(retrieved[1]) :
              /\ TopSignal(retrieved[1][i].id)
              /\ PosIn(search_hybrid(signal_ranking, semantic_ranking, limit, w2, w_semantic),
                       retrieved[1][i].id) \in 1..(i - 1)

(***************************************************************************)
(* JsonCache over the persisted cache file (cache_manager.py)              *)
(*                                                                         *)
(* cache_data is a Python dict, kept here in insertion order as a sequence *)
(* of <<key, value>>; only the category TEMPORAL_CACHE_CATEGORY is used    *)
(* (executor_agent.py:44), so the order is that of its video ids.  A value *)
(* is None (JSON null) or Some(timeline), a timeline being a sequence of   *)
(* segments.  The file is a sequence of tokens: json.dump writes           *)
(*   { CAT { key [ seg ... ] key null ... } }     and   { }  for {}        *)
(* and json.load accepts exactly the well-formed token sequences.          *)
(***************************************************************************)
Procs == {"p1", "p2"}
VideoIds == {"v1", "v2"}
Timelines == {<<"s1">>, <<"s2", "s3">>}
Segments == {"s1", "s2", "s3"}
CAT == "temporal_action_segmenter_outputs"
NUL == "NUL"
BufferSize == 12                \* tokens a file object buffers before it writes

\* dict lookup, None when the key is absent
Lookup(d, k) ==
    IF \E i \in 1..Len(d) : d[i][1] = k
    THEN d[CHOOSE i \in 1..Len(d) : d[i][1] = k][2]
    ELSE None

HasKey(d, k) == \E i \in 1..Len(d) : d[i][1] = k

\* d[k] = v: in place when the key is there, appended otherwise
Put(d, k, v) ==
    IF HasKey(d, k)
    THEN [i \in 1..Len(d) |-> IF d[i][1] = k THEN <<k, v>> ELSE d[i]]
    ELSE Append(d, <<k, v>>)

\* json.dump of one value
SerValue(v) == IF v = None THEN <<"null">> ELSE <<"[">> \o v[1] \o <<"]">>

RECURSIVE SerEntries(_, _)
SerEntries(d, i) ==
    IF i > Len(d) THEN <<>>
    ELSE <<d[i][1]>> \o SerValue(d[i][2]) \o SerEntries(d, i + 1)

\* json.dump(self.cache_data, f, indent=4) (line 55)
Ser(d) ==
    IF d = <<>> THEN <<"{", "}">>
    ELSE <<"{", CAT, "{">> \o SerEntries(d, 1) \o <<"}", "}">>

\* The entries between the inner braces, parsed from position i on with the
\* dict built so far; None when they are malformed.
RECURSIVE ParseEntries(_, _, _)
ParseEntries(t, i, d) ==
    IF i > Len(t) THEN Some(d)
    ELSE IF t[i] \notin VideoIds \/ i = Len(t) THEN None
    ELSE IF t[i + 1] = "null" THEN ParseEntries(t, i + 2, Put(d, t[i], None))
    ELSE IF t[i + 1] # "[" THEN None
    ELSE IF ~ \E j \in (i + 2)..Len(t) : t[j] = "]" THEN None
    ELSE LET j == CHOOSE j \in (i + 2)..Len(t) :
                     t[j] = "]" /\ \A m \in (i + 2)..(j - 1) : t[m] # "]"
         IN  IF \A m \in (i + 2)..(j - 1) : t[m] \in Segments
             THEN ParseEntries(t, j + 1, Put(d, t[i], Some(SubSeq(t, i + 2, j - 1))))
             ELSE None

\* json.load(f) (line 34): Some(dict), or None for a JSONDecodeError
Parse(t) ==
    IF t = <<"{", "}">> THEN Some(<<>>)
    ELSE IF /\ Len(t) >= 5
            /\ t[1] = "{" /\ t[2] = CAT /\ t[3] = "{"
            /\ t[Len(t) - 1] = "}" /\ t[Len(t)] = "}"
         THEN ParseEntries(SubSeq(t, 4, Len(t) - 2), 1, <<>>)
         ELSE None

\* write(2) of `data` at offset `pos` (0-based) of a file holding `bytes`:
\* a gap left by a truncation reads as NUL bytes
WriteAt(bytes, pos, data) ==
    [i \in 1..(IF pos + Len(data) > Len(bytes) THEN pos + Len(data) ELSE Len(bytes)) |->
        IF i > pos /\ i <= pos + Len(data) THEN data[i - pos]
        ELSE IF i <= Len(bytes) THEN bytes[i]
        ELSE NUL]

\* a loader that keeps the first entry of a file that does not parse
LoadedDataSalvaged(bytes) ==
    IF Parse(bytes) # None THEN Parse(bytes)[1]
    ELSE IF Len(bytes) >= 6 /\ bytes[4] \in VideoIds /\ bytes[5] = "["
         THEN <<  <<bytes[4], Some(<<bytes[6]>>)>>  >>
         ELSE <<>>

\* _load_cache_file, lines 34-37: a file that does not parse loads as {}
LoadedData(bytes) == IF Parse(bytes) = None THEN <<>> ELSE Parse(bytes)[1]

CacheInit ==
    /\ \E d \in {<<>>} \cup {<<  <<k, Some(t)>>  >> : k \in VideoIds, t \in Timelines} :
          \/ file_exists = FALSE /\ file_bytes = <<>> /\ d = <<>>
          \/ file_exists = TRUE /\ file_bytes = Ser(d)
    /\ flock_sh = {} /\ flock_ex = {}
    /\ cache_data = [p \in Procs |-> <<>>]
    /\ wbuf = [p \in Procs |-> <<>>]
    /\ wpos = [p \in Procs |-> 0]
    /\ set_key \in [Procs -> VideoIds]
    /\ set_value \in [Procs -> {Some(t) : t \in Timelines}]
    /\ cpc = [p \in Procs |-> "new"]
    /\ ViterbiIdle /\ ReconIdle /\ HybridIdle /\ ExecIdle /\ ExtraIdle

CacheOthersUnchanged ==
    UNCHANGED <<viterbiVars, reconVars, hybridVars, execVars, extraVars>>

\* __init__ -> _load_cache_file, lines 28-31: no file gives {}, else open 'r'
LoadOpen(p) ==
    /\ cpc[p] = "new"
    /\ IF file_exists
       THEN cpc' = [cpc EXCEPT ![p] = "opened_r"] /\ UNCHANGED cache_data
       ELSE cpc' = [cpc EXCEPT ![p] = "constructed"]
            /\ cache_data' = [cache_data EXCEPT ![p] = <<>>]
    /\ UNCHANGED <<fileVars, wbuf, wpos, set_key, set_value>>
    /\ CacheOthersUnchanged

\* line 32: flock(LOCK_SH) waits while another process holds LOCK_EX
LoadLock(p) ==
    /\ cpc[p] = "opened_r"
    /\ flock_ex = {}
    /\ flock_sh' = flock_sh \cup {p}
    /\ cpc' = [cpc EXCEPT ![p] = "locked_r"]
    /\ UNCHANGED <<file_exists, file_bytes, flock_ex, cache_data, wbuf, wpos, set_key, set_value>>
    /\ CacheOthersUnchanged

\* lines 33-40: json.load (a decode error gives {}), then the lock is released
LoadRead(p) ==
    /\ cpc[p] = "locked_r"
    /\ cache_data' = [cache_data EXCEPT ![p] = LoadedData(file_bytes)]
    /\ flock_sh' = flock_sh \ {p}
    /\ cpc' = [cpc EXCEPT ![p] = "constructed"]
    /\ UNCHANGED <<file_exists, file_bytes, flock_ex, wbuf, wpos, set_key, set_value>>
    /\ CacheOthersUnchanged

\* set_item, lines 71-73: the in-memory update
SetItem(p) ==
    /\ cpc[p] = "constructed"
    /\ cache_data' = [cache_data EXCEPT ![p] = Put(cache_data[p], set_key[p], set_value[p])]
    /\ cpc' = [cpc EXCEPT ![p] = "saving"]
    /\ UNCHANGED <<fileVars, wbuf, wpos, set_key, set_value>>
    /\ CacheOthersUnchanged

\* _save_cache_file, line 52: open(path, 'w') creates or truncates the file,
\* before any lock is taken
SaveOpen(p) ==
    /\ cpc[p] = "saving"
    /\ file_exists' = TRUE
    /\ file_bytes' = <<>>
    /\ wpos' = [wpos EXCEPT ![p] = 0]
    /\ wbuf' = [wbuf EXCEPT ![p] = <<>>]
    /\ cpc' = [cpc EXCEPT ![p] = "opened_w"]
    /\ UNCHANGED <<flock_sh, flock_ex, cache_data, set_key, set_value>>
    /\ CacheOthersUnchanged

\* line 53: flock(LOCK_EX) waits while any other process holds a lock
SaveLock(p) ==
    /\ cpc[p] = "opened_w"
    /\ flock_ex = {} /\ flock_sh \subseteq {p}
    /\ flock_ex' = {p}
    /\ cpc' = [cpc EXCEPT ![p] = "locked_w"]
    /\ UNCHANGED <<file_exists, file_bytes, flock_sh, cache_data, wbuf, wpos, set_key, set_value>>
    /\ CacheOthersUnchanged

\* line 55: json.dump into the file object; what exceeds its buffer is
\* written at once, the rest stays buffered
SaveDump(p) ==
    /\ cpc[p] = "locked_w"
    /\ LET data == Ser(cache_data[p])
           n == IF Len(data) > BufferSize THEN BufferSize ELSE 0
       IN  /\ file_bytes' = IF n = 0 THEN file_bytes
                            ELSE WriteAt(file_bytes, wpos[p], SubSeq(data, 1, n))
           /\ wpos' = [wpos EXCEPT ![p] = wpos[p] + n]
           /\ wbuf' = [wbuf EXCEPT ![p] = SubSeq(data, n + 1, Len(data))]
    /\ cpc' = [cpc EXCEPT ![p] = "dumped"]
    /\ UNCHANGED <<file_exists, flock_sh, flock_ex, cache_data, set_key, set_value>>
    /\ CacheOthersUnchanged

\* line 57: the lock is released inside the with block, before the close
SaveUnlock(p) ==
    /\ cpc[p] = "dumped"
    /\ flock_ex' = flock_ex \ {p}
    /\ cpc' = [cpc EXCEPT ![p] = "unlocked"]
    /\ UNCHANGED <<file_exists, file_bytes, flock_sh, cache_data, wbuf, wpos, set_key, set_value>>
    /\ CacheOthersUnchanged

\* leaving the with block (line 52) closes the file, which writes the buffer
SaveClose(p) ==
    /\ cpc[p] = "unlocked"
    /\ file_bytes' = WriteAt(file_bytes, wpos[p], wbuf[p])
    /\ wpos' = [wpos EXCEPT ![p] = wpos[p] + Len(wbuf[p])]
    /\ wbuf' = [wbuf EXCEPT ![p] = <<>>]
    /\ cpc' = [cpc EXCEPT ![p] = "done"]
    /\ UNCHANGED <<file_exists, flock_sh, flock_ex, cache_data, set_key, set_value>>
    /\ CacheOthersUnchanged

CacheNext ==
    \E p \in Procs :
        \/ LoadOpen(p)
        \/ LoadLock(p)
        \/ LoadRead(p)
        \/ SetItem(p)
        \/ SaveOpen(p)
        \/ SaveLock(p)
        \/ SaveDump(p)
        \/ SaveUnlock(p)
        \/ SaveClose(p)

SpecCache == CacheInit /\ [][CacheNext]_vars

(***************************************************************************)
(* C5: when two writers call set_item for the same key with values a and   *)
(* b, then once both calls have returned the cache file is well-formed and *)
(* holds exactly a or exactly b for that key.                              *)
(***************************************************************************)
LastWriteWins ==
    (/\ \A p \in Procs : cpc[p] = "done"
     /\ set_key["p1"] = set_key["p2"])
        => /\ Parse(file_bytes) # None
           /\ Lookup(LoadedData(file_bytes), set_key["p1"])
                 \in {set_value["p1"], set_value["p2"]}

(***************************************************************************)
(* Executor.run (executor_agent.py:117-250)                                *)
(*                                                                         *)
(* Requests are served one at a time: assess_video_pipeline                *)
(* (backend/routers/v1/base.py:385) never awaits and the app runs in one   *)
(* uvicorn worker (backend/app.py:146).  Each request constructs its own   *)
(* Executor, hence its own JsonCache loaded from the cache file            *)
(* (base.py:414, executor_agent.py:80), and then calls run once.           *)
(***************************************************************************)
MaxTools == 2
Server == "executor"
ToolNames == {"keyframe_captioner", "pose_analyzer", "temporal_action_segmenter",
              "audio_transcript_extractor"}
TOOL_CATEGORY(tool_name) ==
    CASE tool_name = "audio_transcript_extractor" -> "AUDIO"
      [] tool_name = "temporal_action_segmenter"  -> "TEMPORAL"
      [] OTHER                                    -> "VISUAL"
TemporalTool == "temporal_action_segmenter"
Evidence == <<"evidence">>              \* what an audio or visual tool returns
Hits == {<<>>, <<"hit">>}               \* what a retrieval returns when it succeeds
MissingVideoId == <<  <<"error", Some(<<"video_id is missing.">>)>>  >>

\* JsonCache.get_item (cache_manager.py:65-67), mutated: it never finds the key
get_item_miss(d, key) == None

\* JsonCache.get_item (cache_manager.py:65-67)
get_item(d, key) == Lookup(d, key)

\* the handler of lines 244-247, mutated: the failed tool gets no entry
RecordFailureSkipped(outputs, tool_name) == outputs

\* lines 148-150 and 244-247: a failed tool maps to None
RecordFailure(outputs, tool_name) == Put(outputs, tool_name, None)

\* one record of `attempts`
Attempt(tool_name, branch, failed, ran, output) ==
    [name |-> tool_name, branch |-> branch, failed |-> failed, ran |-> ran,
     output |-> output]

ExecInit ==
    /\ \E d \in {<<>>} \cup {<<  <<k, Some(t)>>  >> : k \in VideoIds, t \in Timelines} :
          /\ \/ file_exists = FALSE /\ file_bytes = <<>> /\ d = <<>>
             \/ file_exists = TRUE /\ file_bytes = Ser(d)
          /\ stored = [v \in VideoIds |-> Lookup(d, v)]
          /\ stored_at_start = [v \in VideoIds |-> Lookup(d, v)]
    /\ cache_data = [p \in {Server} |-> <<>>]
    /\ WritersIdle
    /\ video_id = "" /\ selected_tool_names = <<>> /\ tool_idx = 0 /\ tool_outputs = <<>>
    /\ retrieved_audio_segments_cache = None /\ retrieved_video_keyframes_cache = None
    /\ audio_queries = 0 /\ keyframe_queries = 0 /\ segmenter_runs = 0
    /\ attempts = <<>>
    /\ epc = "idle"
    /\ ViterbiIdle /\ ReconIdle /\ HybridIdle /\ ExtraIdle

ExecOthersUnchanged ==
    UNCHANGED <<viterbiVars, reconVars, hybridVars, flock_sh, flock_ex, wbuf, wpos,
                set_key, set_value, cpc, extraVars>>

\* A request: Executor.__init__ loads the cache file (line 80), then run
\* starts (lines 125-134) and returns at once when video_id is missing.
StartRun ==
    /\ epc = "idle"
    /\ \E vid \in {""} \cup VideoIds, names \in SeqsUpTo(ToolNames, 0, MaxTools) :
          /\ video_id' = vid
          /\ selected_tool_names' = names
          /\ IF vid = ""
             THEN tool_outputs' = MissingVideoId /\ epc' = "returned"
             ELSE tool_outputs' = <<>> /\ epc' = "running"
    /\ cache_data' = [cache_data EXCEPT ![Server] =
                          IF file_exists THEN LoadedData(file_bytes) ELSE <<>>]
    /\ tool_idx' = 1
    /\ retrieved_audio_segments_cache' = None
    /\ retrieved_video_keyframes_cache' = None
    /\ audio_queries' = 0 /\ keyframe_queries' = 0 /\ segmenter_runs' = 0
    /\ attempts' = <<>>
    /\ stored_at_start' = stored
    /\ UNCHANGED <<file_exists, file_bytes, stored>>
    /\ ExecOthersUnchanged

InLoop == epc = "running" /\ tool_idx <= Len(selected_tool_names)

\* what every iteration of the loop leaves alone
IterationFrame ==
    /\ tool_idx' = tool_idx + 1
    /\ UNCHANGED <<video_id, selected_tool_names, stored_at_start, epc>>
    /\ ExecOthersUnchanged

\* lines 146-150: the tool cannot be instantiated
ToolNotInstantiated ==
    /\ InLoop
    /\ LET tool_name == selected_tool_names[tool_idx]
       IN  /\ tool_outputs' = RecordFailure(tool_outputs, tool_name)
           /\ attempts' = Append(attempts, Attempt(tool_name, "no instance", TRUE, FALSE, None))
    /\ UNCHANGED <<retrieved_audio_segments_cache, retrieved_video_keyframes_cache,
                   audio_queries, keyframe_queries, segmenter_runs, stored,
                   file_exists, file_bytes, cache_data>>
    /\ IterationFrame

\* lines 182-186 and 213-217 for one tool: len() of the retrieval result
\* raises on None, else the tool runs and raises or returns
AfterRetrieval(tool_name, retrieved_cache, run_raises, run_output) ==
    IF retrieved_cache = None \/ run_raises
    THEN /\ tool_outputs' = RecordFailure(tool_outputs, tool_name)
         /\ attempts' = Append(attempts,
                               Attempt(tool_name, TOOL_CATEGORY(tool_name), TRUE,
                                       retrieved_cache # None, None))
    ELSE /\ tool_outputs' = Put(tool_outputs, tool_name, run_output)
         /\ attempts' = Append(attempts,
                               Attempt(tool_name, TOOL_CATEGORY(tool_name),
                                       run_output = None, TRUE, run_output))

\* lines 157-186: the test reads retrieved_audio_segments_cache, the result
\* is assigned to retrieved_audio_cache
RunAudioTool ==
    /\ InLoop
    /\ TOOL_CATEGORY(selected_tool_names[tool_idx]) = "AUDIO"
    /\ \E result \in {None} \cup {Some(h) : h \in Hits}, run_raises \in BOOLEAN,
          run_output \in {None, Some(Evidence)} :
          LET query == retrieved_audio_segments_cache = None
              retrieved_audio_cache == IF query THEN result ELSE None
          IN  /\ audio_queries' = IF query THEN audio_queries + 1 ELSE audio_queries
              /\ AfterRetrieval(selected_tool_names[tool_idx], retrieved_audio_cache,
                                run_raises, run_output)
    /\ UNCHANGED <<retrieved_audio_segments_cache, retrieved_video_keyframes_cache,
                   keyframe_queries, segmenter_runs, stored, file_exists, file_bytes,
                   cache_data>>
    /\ IterationFrame

\* lines 188-217
RunVisualTool ==
    /\ InLoop
    /\ TOOL_CATEGORY(selected_tool_names[tool_idx]) = "VISUAL"
    /\ \E result \in {None} \cup {Some(h) : h \in Hits}, run_raises \in BOOLEAN,
          run_output \in {None, Some(Evidence)} :
          LET query == retrieved_video_keyframes_cache = None
          IN  /\ keyframe_queries' = IF query THEN keyframe_queries + 1 ELSE keyframe_queries
              /\ retrieved_video_keyframes_cache' =
                    IF query THEN result ELSE retrieved_video_keyframes_cache
              /\ AfterRetrieval(selected_tool_names[tool_idx],
                                retrieved_video_keyframes_cache', run_raises, run_output)
    /\ UNCHANGED <<retrieved_audio_segments_cache, audio_queries, segmenter_runs, stored,
                   file_exists, file_bytes, cache_data>>
    /\ IterationFrame

\* a hit on any entry the file holds for the key, a null entry included
cache_hit_key_present(d, key) == HasKey(d, key)

\* lines 221-225: cached_data = get_item(...); if cached_data is not None
cache_hit(d, key) == get_item(d, key) # None

\* lines 219-242: a hit answers from the cache; a miss raises when the video
\* file or the vocabulary is missing, else runs the tool and stores its output
RunTemporalTool ==
    /\ InLoop
    /\ TOOL_CATEGORY(selected_tool_names[tool_idx]) = "TEMPORAL"
    /\ \E video_file_found \in BOOLEAN, action_vocabulary \in BOOLEAN,
          output \in {None} \cup {Some(t) : t \in Timelines} :
          LET tool_name == selected_tool_names[tool_idx]
              cached_data == get_item(cache_data[Server], video_id)
          IN  IF cache_hit(cache_data[Server], video_id)
              THEN /\ tool_outputs' = Put(tool_outputs, tool_name, cached_data)
                   /\ attempts' = Append(attempts,
                                         Attempt(tool_name, "TEMPORAL", FALSE, FALSE,
                                                 cached_data))
                   /\ UNCHANGED <<segmenter_runs, stored, file_exists, file_bytes, cache_data>>
              ELSE IF ~video_file_found \/ ~action_vocabulary
              THEN /\ tool_outputs' = RecordFailure(tool_outputs, tool_name)
                   /\ attempts' = Append(attempts, Attempt(tool_name, "TEMPORAL", TRUE, FALSE,
                                                           None))
                   /\ UNCHANGED <<segmenter_runs, stored, file_exists, file_bytes, cache_data>>
              ELSE /\ segmenter_runs' = segmenter_runs + 1
                   /\ cache_data' = [cache_data EXCEPT ![Server] = Put(@, video_id, output)]
                   /\ file_exists' = TRUE
                   /\ file_bytes' = Ser(cache_data'[Server])
                   /\ stored' = IF output = None THEN stored
                                ELSE [stored EXCEPT ![video_id] = output]
                   /\ tool_outputs' = Put(tool_outputs, tool_name, output)
                   /\ attempts' = Append(attempts,
                                         Attempt(tool_name, "TEMPORAL", output = None,
                                                 TRUE, output))
    /\ UNCHANGED <<retrieved_audio_segments_cache, retrieved_video_keyframes_cache,
                   audio_queries, keyframe_queries>>
    /\ IterationFrame

\* lines 249-250
ReturnOutputs ==
    /\ epc = "running"
    /\ tool_idx > Len(selected_tool_names)
    /\ epc' = "returned"
    /\ UNCHANGED <<video_id, selected_tool_names, tool_idx, tool_outputs,
                   retrieved_audio_segments_cache, retrieved_video_keyframes_cache,
                   audio_queries, keyframe_queries, segmenter_runs, attempts, stored,
                   stored_at_start, file_exists, file_bytes, cache_data>>
    /\ ExecOthersUnchanged

\* assess_video_pipeline hands the outputs to the scorer and responds
\* (base.py:487-549); the request's Executor and its run are gone
Respond ==
    /\ epc = "returned"
    /\ epc' = "idle"
    /\ video_id' = "" /\ selected_tool_names' = <<>> /\ tool_idx' = 0 /\ tool_outputs' = <<>>
    /\ retrieved_audio_segments_cache' = None /\ retrieved_video_keyframes_cache' = None
    /\ audio_queries' = 0 /\ keyframe_queries' = 0 /\ segmenter_runs' = 0
    /\ attempts' = <<>>
    /\ cache_data' = [cache_data EXCEPT ![Server] = <<>>]
    /\ stored_at_start' = stored
    /\ UNCHANGED <<stored, file_exists, file_bytes>>
    /\ ExecOthersUnchanged

ExecNext ==
    \/ StartRun
    \/ Respond
    \/ ToolNotInstantiated
    \/ RunAudioTool
    \/ RunVisualTool
    \/ RunTemporalTool
    \/ ReturnOutputs

SpecExec == ExecInit /\ [][ExecNext]_vars

LastAttempt(i) == \A j \in (i + 1)..Len(attempts) : attempts[j].name # attempts[i].name

FailureIsolation ==
    (epc = "returned" /\ video_id # "")
        => /\ Len(attempts) = Len(selected_tool_names)
           /\ \A i \in 1..Len(attempts) :
                 /\ attempts[i].name = selected_tool_names[i]
                 /\ HasKey(tool_outputs, selected_tool_names[i])
                 /\ ~attempts[i].failed
                       => \/ attempts[i].ran
                          \/ /\ attempts[i].branch = "TEMPORAL"
                             /\ attempts[i].output = stored[video_id]
                 /\ LastAttempt(i)
                       => Lookup(tool_outputs, attempts[i].name) =
                             IF attempts[i].failed THEN None ELSE attempts[i].output

\* a run in which a tool fails and a later tool still runs and is recorded
FailureIsolationWitness ==
    /\ epc = "returned" /\ video_id # ""
    /\ \E i, j \in 1..Len(attempts) :
          /\ i < j
          /\ attempts[i].failed /\ attempts[i].name # attempts[j].name
          /\ ~attempts[j].failed /\ attempts[j].ran
          /\ Lookup(tool_outputs, attempts[i].name) = None
          /\ Lookup(tool_outputs, attempts[j].name) = attempts[j].output

(***************************************************************************)
(* C7: during one run at most one retrieval query is issued per modality   *)
(* (audio segments, video keyframes), however many selected tools belong   *)
(* to it.                                                                  *)
(***************************************************************************)
MemoizedRetrieval == audio_queries <= 1 /\ keyframe_queries <= 1

\* C7 for the keyframe modality when no retrieval fails
MemoizedKeyframeRetrieval ==
    (\A i \in 1..Len(attempts) : attempts[i].branch = "VISUAL" => attempts[i].ran)
        => keyframe_queries <= 1

(***************************************************************************)
(* Keyframe selection: extract_keyframes_by_clustering and                 *)
(* cluster_and_select_keyframes (core/utils/video_processor.py).           *)
(*                                                                         *)
(* A frame is its 1-based position in the sampling order; an embedding is  *)
(* one integer (the source clusters float vectors).  KMeans is the library *)
(* call: its labelling is chosen among those a clustering can return, that *)
(* is, frames with equal embeddings share a cluster, and as many clusters  *)
(* are populated as there are distinct embeddings, up to n_clusters.       *)
(***************************************************************************)
MaxCandidates == 4
MaxKeyframes == 3
EmbeddingValues == {1, 2, 4}

coreVars == <<viterbiVars, reconVars, hybridVars, fileVars, cacheVars, execVars,
             segmenterVars, toolVars, batchVars>>
CoreIdle ==
    /\ ViterbiIdle /\ ReconIdle /\ HybridIdle /\ CacheIdle /\ ExecIdle /\ SegmenterIdle
    /\ ToolIdle /\ BatchIdle

Abs(x) == IF x < 0 THEN -x ELSE x

RECURSIVE SumOver(_, _)
SumOver(f, S) ==
    IF S = {} THEN 0
    ELSE LET x == CHOOSE y \in S : TRUE IN f[x] + SumOver(f, S \ {x})

\* lines 374-375: kmeans.fit_predict(embeddings_np)
KMeansLabelings(emb, n_clusters) ==
    LET distinct == Cardinality({emb[i] : i \in 1..Len(emb)})
    IN  {l \in [1..Len(emb) -> 0..(n_clusters - 1)] :
            /\ \A i, j \in 1..Len(emb) : emb[i] = emb[j] => l[i] = l[j]
            /\ Cardinality({l[i] : i \in 1..Len(emb)}) = Min(n_clusters, distinct)}

\* the first member of the cluster, whatever its distance to the centroid
first_of_cluster(emb, members) == CHOOSE i \in members : \A j \in members : i <= j

\* lines 388-398: the member closest to the cluster's centroid (np.argmin:
\* the first of the closest), the centroid being the mean of the members
closest_to_centroid(emb, members) ==
    LET n == Cardinality(members)
        total == SumOver(emb, members)
        dist(i) == Abs(emb[i] * n - total)
        best == CHOOSE d \in {dist(i) : i \in members} :
                    \A i \in members : d <= dist(i)
    IN  CHOOSE i \in members :
            dist(i) = best /\ \A j \in members : dist(j) = best => i <= j

RECURSIVE InsertByTimestamp(_, _)
InsertByTimestamp(sorted, x) ==
    IF sorted = <<>> THEN <<x>>
    ELSE IF x[2] < Head(sorted)[2] THEN <<x>> \o sorted
    ELSE <<Head(sorted)>> \o InsertByTimestamp(Tail(sorted), x)

\* list.sort(key=lambda x: x[1]) / sorted(..., key=lambda x: x[1]): stable
RECURSIVE SortByTimestamp(_)
SortByTimestamp(l) ==
    IF l = <<>> THEN <<>>
    ELSE InsertByTimestamp(SortByTimestamp(SubSeq(l, 1, Len(l) - 1)), l[Len(l)])

\* lines 383-405: one pass over the clusters, skipping the empty ones
RECURSIVE SelectLoop(_, _, _, _, _, _)
SelectLoop(i, actual_num_clusters, labels, emb, timestamps, selected_keyframes_data) ==
    IF i >= actual_num_clusters THEN selected_keyframes_data
    ELSE LET cluster_member_original_indices == {m \in 1..Len(emb) : labels[m] = i}
         IN  IF cluster_member_original_indices = {}
             THEN SelectLoop(i + 1, actual_num_clusters, labels, emb, timestamps,
                             selected_keyframes_data)
             ELSE LET original_frame_index ==
                          closest_to_centroid(emb, cluster_member_original_indices)
                      selected_original_indices ==
                          {selected_keyframes_data[s][1] :
                              s \in 1..Len(selected_keyframes_data)}
                  IN  SelectLoop(i + 1, actual_num_clusters, labels, emb, timestamps,
                          IF original_frame_index \in selected_original_indices
                          THEN selected_keyframes_data
                          ELSE Append(selected_keyframes_data,
                                      <<original_frame_index,
                                        timestamps[original_frame_index]>>))

\* the selection without the final sort of line 408
cluster_and_select_unsorted(timestamps, emb, labels, actual_num_clusters) ==
    SelectLoop(0, actual_num_clusters, labels, emb, timestamps, <<>>)

\* lines 336-414 once the labelling is known
cluster_and_select_keyframes(timestamps, emb, labels, actual_num_clusters) ==
    SortByTimestamp(SelectLoop(0, actual_num_clusters, labels, emb, timestamps, <<>>))

\* sample_frames_from_video, lines 128-141: one frame per sampling interval,
\* stamped frame_count / fps, so the timestamps ascend
KeyframeInit ==
    /\ \E n \in 0..MaxCandidates : candidate_timestamps = [i \in 1..n |-> i - 1]
    /\ num_keyframes \in 0..MaxKeyframes
    /\ embeddings_np = None
    /\ cluster_labels = <<>>
    /\ selected_keyframes = <<>>
    /\ kpc = "sampled"
    /\ CoreIdle /\ WindowIdle /\ TransitionIdle /\ RetryIdle

KeyframeReturn(result, branch) ==
    /\ selected_keyframes' = result
    /\ kpc' = branch
    /\ UNCHANGED <<candidate_timestamps, num_keyframes, coreVars, windowVars,
                   transitionVars, retryVars>>

\* lines 463-465: no frame was sampled
NoFramesSampled ==
    /\ kpc = "sampled"
    /\ candidate_timestamps = <<>>
    /\ KeyframeReturn(<<>>, "no_frames")
    /\ UNCHANGED <<embeddings_np, cluster_labels>>

\* lines 468-471: no more frames than desired keyframes, all are returned
ReturnAllSampled ==
    /\ kpc = "sampled"
    /\ candidate_timestamps # <<>>
    /\ Len(candidate_timestamps) <= num_keyframes
    /\ KeyframeReturn(SortByTimestamp([i \in 1..Len(candidate_timestamps) |->
                                          <<i, candidate_timestamps[i]>>]),
                      "all_sampled")
    /\ UNCHANGED <<embeddings_np, cluster_labels>>

\* lines 483-485: the embedding model returned nothing
EmbeddingsFailed ==
    /\ kpc = "sampled"
    /\ Len(candidate_timestamps) > num_keyframes
    /\ KeyframeReturn(<<>>, "no_embeddings")
    /\ UNCHANGED <<embeddings_np, cluster_labels>>

\* lines 474-493 with cluster_and_select_keyframes, lines 355-410
ClusterAndSelect ==
    /\ kpc = "sampled"
    /\ Len(candidate_timestamps) > num_keyframes
    /\ \E emb \in SeqsOfLen(EmbeddingValues, Len(candidate_timestamps)) :
         LET actual_num_clusters == Min(num_keyframes, Len(emb))
         IN  /\ embeddings_np' = Some(emb)
             /\ IF actual_num_clusters = 0
                THEN /\ cluster_labels' = <<>>
                     /\ KeyframeReturn(<<>>, "no_clusters")
                ELSE \E labels \in KMeansLabelings(emb, actual_num_clusters) :
                        /\ cluster_labels' = labels
                        /\ KeyframeReturn(
                              cluster_and_select_keyframes(candidate_timestamps, emb,
                                                           labels, actual_num_clusters),
                              "clustered")

\* lines 412-414: any exception inside the clustering gives an empty list
ClusteringRaises ==
    /\ kpc = "sampled"
    /\ Len(candidate_timestamps) > num_keyframes
    /\ num_keyframes > 0
    /\ \E emb \in SeqsOfLen(EmbeddingValues, Len(candidate_timestamps)) :
          embeddings_np' = Some(emb)
    /\ cluster_labels' = <<>>
    /\ KeyframeReturn(<<>>, "exception")

KeyframeNext ==
    \/ NoFramesSampled
    \/ ReturnAllSampled
    \/ EmbeddingsFailed
    \/ ClusterAndSelect
    \/ ClusteringRaises

SpecKeyframes == KeyframeInit /\ [][KeyframeNext]_vars

KeyframesReturned == kpc \notin {"off", "sampled"}

DistinctAndAscending(keyframes) ==
    /\ \A i, j \in 1..Len(keyframes) : i # j => keyframes[i][1] # keyframes[j][1]
    /\ \A i \in 1..(Len(keyframes) - 1) : keyframes[i][2] <= keyframes[i + 1][2]
    /\ \A i \in 1..Len(keyframes) :
          /\ keyframes[i][1] \in 1..Len(candidate_timestamps)
          /\ keyframes[i][2] = candidate_timestamps[keyframes[i][1]]

(***************************************************************************)
(* C13: for N candidate frames and a target of K, the selector returns     *)
(* exactly min(N, K) distinct candidates in ascending timestamp order      *)
(* (all N when N <= K).  As stated the count fails: a cluster left empty  *)
(* by KMeans is skipped, and a failed embedding or clustering step returns *)
(* nothing.                                                                *)
(***************************************************************************)
KeyframeCountExact ==
    KeyframesReturned =>
        /\ Len(selected_keyframes) = Min(Len(candidate_timestamps), num_keyframes)
        /\ DistinctAndAscending(selected_keyframes)

(***************************************************************************)
(* C13 (amended): the selector returns at most min(N, K) distinct          *)
(* candidates in ascending timestamp order, all N of them when N <= K, and *)
(* exactly one per populated cluster after a clustering.                   *)
(***************************************************************************)
KeyframeCountAtMost ==
    KeyframesReturned =>
        /\ Len(selected_keyframes) <= Min(Len(candidate_timestamps), num_keyframes)
        /\ DistinctAndAscending(selected_keyframes)
        /\ Len(candidate_timestamps) <= num_keyframes
              => Len(selected_keyframes) = Len(candidate_timestamps)
        /\ kpc = "clustered"
              => Len(selected_keyframes)
                   = Cardinality({cluster_labels[i] : i \in 1..Len(cluster_labels)})

\* a clustering of more frames than K whose embeddings leave a cluster empty:
\* fewer than K keyframes come back, reordered by the final sort
KeyframeCountAtMostWitness ==
    /\ kpc = "clustered"
    /\ Len(selected_keyframes) > 1
    /\ Len(selected_keyframes) < Min(Len(candidate_timestamps), num_keyframes)
    /\ selected_keyframes
          # cluster_and_select_unsorted(candidate_timestamps, embeddings_np[1],
                                        cluster_labels, num_keyframes)

(***************************************************************************)
(* Windowing: generate_overlapping_clip_time_segments                      *)
(* (core/utils/temporal_utils.py, lines 13-74).                            *)
(*                                                                         *)
(* Durations and strides are integers in units of 1/Centi of a hundredth   *)
(* of a second.  Inside one call every time is kept in ticks, a tick being *)
(* 1/num_clips of a unit, so that clip_length is the integer               *)
(* video_duration + (num_clips - 1) * clip_stride and the arithmetic is    *)
(* exact (the source computes in binary floating point).  round(x, 2) maps *)
(* a time to a whole number of hundredths, and that is what is returned.   *)
(***************************************************************************)
Centi == 4
MaxDuration == 15
MaxStride == 4
MaxClips == 3

Max(a, b) == IF a >= b THEN a ELSE b

\* round(x, 2) of a time of x ticks, in hundredths (ties go to the even one)
Round2(x, n_clips) ==
    LET per == n_clips * Centi
        q == x \div per
        r == x % per
    IN  IF 2 * r < per THEN q
        ELSE IF 2 * r > per THEN q + 1
        ELSE IF q % 2 = 0 THEN q ELSE q + 1

\* lines 66-72 without the clamp at 0 of line 70
next_start_unclamped(end_time, stride, duration) == Min(end_time - stride, duration)

\* lines 66-72: the start of the next clip
next_start(end_time, stride, duration) == Min(Max(0, end_time - stride), duration)

\* lines 54-72: the loop, times in ticks
RECURSIVE ClipLoop(_, _, _, _, _, _)
ClipLoop(i, n_clips, current_start_time, clip_length, duration, stride) ==
    IF i >= n_clips THEN <<>>
    ELSE LET start_time == current_start_time
             end_time == IF i = n_clips - 1 THEN duration
                         ELSE Min(start_time + clip_length, duration)
         IN  <<  <<Round2(start_time, n_clips), Round2(end_time, n_clips)>>  >>
             \o ClipLoop(i + 1, n_clips, next_start(end_time, stride, duration),
                         clip_length, duration, stride)

\* lines 46-74
clip_time_segments(duration, n_clips, stride) ==
    ClipLoop(0, n_clips, 0, duration + (n_clips - 1) * stride,
             duration * n_clips, stride * n_clips)

WindowInit ==
    /\ video_duration \in 0..MaxDuration
    /\ num_clips \in 0..MaxClips
    /\ clip_stride \in 0..MaxStride
    /\ segments = <<>>
    /\ wpc = "input"
    /\ CoreIdle /\ KeyframeIdle /\ TransitionIdle /\ RetryIdle

WindowUnchanged ==
    UNCHANGED <<video_duration, num_clips, clip_stride, coreVars, keyframeVars,
                transitionVars, retryVars>>

\* lines 43-44: no frames (or no frame rate) raises RuntimeError
WindowingRaises ==
    /\ wpc = "input"
    /\ video_duration <= 0
    /\ wpc' = "RuntimeError"
    /\ UNCHANGED segments
    /\ WindowUnchanged

\* line 49: the division by num_clips raises ZeroDivisionError
ClipLengthRaises ==
    /\ wpc = "input"
    /\ video_duration > 0
    /\ num_clips = 0
    /\ wpc' = "ZeroDivisionError"
    /\ UNCHANGED segments
    /\ WindowUnchanged

\* lines 46-74
GenerateSegments ==
    /\ wpc = "input"
    /\ video_duration > 0
    /\ num_clips > 0
    /\ segments' = clip_time_segments(video_duration, num_clips, clip_stride)
    /\ wpc' = "returned"
    /\ WindowUnchanged

WindowNext == WindowingRaises \/ ClipLengthRaises \/ GenerateSegments

SpecWindows == WindowInit /\ [][WindowNext]_vars

(***************************************************************************)
(* C14: for L > 0, M >= 1 and stride S the function returns exactly M      *)
(* windows, the first starting at 0, the last ending exactly at L, every   *)
(* window with 0 <= start <= end <= L.  As stated this fails: the returned *)
(* times are rounded to two decimals, so the last end is round(L, 2),      *)
(* which differs from L and can exceed it.                                 *)
(***************************************************************************)
WindowBoundsExact ==
    wpc = "returned" =>
        /\ Len(segments) = num_clips
        /\ segments[1][1] = 0
        /\ segments[num_clips][2] * Centi = video_duration
        /\ \A i \in 1..Len(segments) :
              /\ 0 <= segments[i][1]
              /\ segments[i][1] <= segments[i][2]
              /\ segments[i][2] * Centi <= video_duration

(***************************************************************************)
(* C14 (amended): the function returns exactly M windows, the first        *)
(* starting at 0, the last ending at round(L, 2), every window with        *)
(* 0 <= start <= end <= round(L, 2).                                       *)
(***************************************************************************)
WindowBoundsRounded ==
    wpc = "returned" =>
        LET rounded_duration == Round2(video_duration * num_clips, num_clips)
        IN  /\ Len(segments) = num_clips
            /\ segments[1][1] = 0
            /\ segments[num_clips][2] = rounded_duration
            /\ \A i \in 1..Len(segments) :
                  /\ 0 <= segments[i][1]
                  /\ segments[i][1] <= segments[i][2]
                  /\ segments[i][2] <= rounded_duration

\* several overlapping windows of a video whose duration rounds upwards
WindowBoundsRoundedWitness ==
    /\ wpc = "returned"
    /\ num_clips >= 2
    /\ segments[num_clips][2] * Centi > video_duration
    /\ segments[2][1] > 0
    /\ segments[2][1] < segments[1][2]

(***************************************************************************)
(* The transition model: build_transition_matrix                           *)
(* (core/utils/viterbi_decoding_utils.py, lines 7-109).                    *)
(*                                                                         *)
(* Probabilities are exact fractions.  Before the normalisation every      *)
(* entry is a whole number of units of 1/Scale, Scale being a common       *)
(* denominator of p_self, epsilon_floor and the shares 1/n; after it an    *)
(* entry is a pair <<numerator, denominator>>.  A successor list is a set  *)
(* of labels (no repetitions), possibly naming labels outside the          *)
(* vocabulary; a label without an entry in the map has the empty set.      *)
(***************************************************************************)
PSelfSteps == 4
Vocabularies == {<<"A">>, <<"A", "B">>, <<"A", "B", "C">>}
UnknownLabel == "Z"
Epsilons == {<<1, 100>>, <<1, 2>>, <<2, 1>>}

RangeOf(s) == {s[i] : i \in 1..Len(s)}

RECURSIVE Factorial(_)
Factorial(n) == IF n <= 1 THEN 1 ELSE n * Factorial(n - 1)

\* the common denominator of the entries of one matrix
Scale(labels, eps) == PSelfSteps * eps[2] * Factorial(Len(labels) - 1)

RECURSIVE SumSeq(_)
SumSeq(s) == IF s = <<>> THEN 0 ELSE Head(s) + SumSeq(Tail(s))

\* an entry left below the floor
floor_to_epsilon_skipped(x, e) == x

\* lines 47-48, 57-58, 75-76, 92-93, 103-104: if T[i, j] < epsilon_floor
floor_to_epsilon(x, e) == IF x < e THEN e ELSE x

\* a row that forces the self-loop whatever the successors are
transition_row_self_only(labels, successors_map, i, p, e, one) ==
    [j \in 1..Len(labels) |->
        IF j # i THEN e ELSE floor_to_epsilon(one - (Len(labels) - 1) * e, e)]

\* lines 29-104: row i before the normalisation, in units of 1/Scale
transition_row(labels, successors_map, i, p, e, one) ==
    LET K == Len(labels)
        current_action == labels[i]
        valid_successors == successors_map[current_action] \cap RangeOf(labels)
        is_self_an_allowed_successor == current_action \in valid_successors
        non_self_valid_successors == valid_successors \ {current_action}
        num_non_self_valid_successors == Cardinality(non_self_valid_successors)
    IN  [j \in 1..K |->
            IF num_non_self_valid_successors = 0
            THEN \* cases A, B and E: a forced self-loop
                 IF j # i THEN e ELSE floor_to_epsilon(one - (K - 1) * e, e)
            ELSE IF is_self_an_allowed_successor
            THEN \* case C
                 IF j = i THEN p
                 ELSE IF labels[j] \in non_self_valid_successors
                      THEN floor_to_epsilon((one - p) \div num_non_self_valid_successors, e)
                      ELSE e
            ELSE \* case D
                 IF j = i THEN e
                 ELSE IF labels[j] \in non_self_valid_successors
                      THEN floor_to_epsilon((one - e) \div num_non_self_valid_successors, e)
                      ELSE e]

\* the rows returned as they are, without lines 106-108
normalize_row_skipped(row, one) == [j \in 1..Len(row) |-> <<row[j], one>>]

\* lines 106-108: T / row_sums, a row sum below 1e-10 being replaced by 1.0
\* (a row sum is a whole number of units of at least 1e-4, so it is below
\* 1e-10 exactly when it is not positive)
normalize_row(row, one) ==
    LET row_sum == SumSeq(row)
        divisor == IF row_sum <= 0 THEN one ELSE row_sum
    IN  [j \in 1..Len(row) |-> <<row[j], divisor>>]

\* lines 7-109
build_transition_matrix(labels, successors_map, p_steps, eps) ==
    LET one == Scale(labels, eps)
        p == (p_steps * one) \div PSelfSteps
        e == (eps[1] * one) \div eps[2]
    IN  [i \in 1..Len(labels) |->
            normalize_row(transition_row(labels, successors_map, i, p, e, one), one)]

TransitionInit ==
    /\ vocabulary \in Vocabularies
    /\ allowed_successors_map
          \in [RangeOf(vocabulary) -> SUBSET (RangeOf(vocabulary) \cup {UnknownLabel})]
    /\ p_self \in 1..(PSelfSteps - 1)
    /\ epsilon_floor \in Epsilons
    /\ T = <<>>
    /\ tpc = "input"
    /\ CoreIdle /\ KeyframeIdle /\ WindowIdle /\ RetryIdle

BuildTransitionMatrix ==
    /\ tpc = "input"
    /\ T' = build_transition_matrix(vocabulary, allowed_successors_map, p_self,
                                    epsilon_floor)
    /\ tpc' = "built"
    /\ UNCHANGED <<vocabulary, allowed_successors_map, p_self, epsilon_floor, coreVars,
                   keyframeVars, windowVars, retryVars>>

TransitionNext == BuildTransitionMatrix

SpecTransition == TransitionInit /\ [][TransitionNext]_vars

(***************************************************************************)
(* C15: for every vocabulary, SuccessorGraph, p_self in (0, 1) and         *)
(* epsilon > 0 the transition matrix is row-stochastic (each row sums to   *)
(* 1) and strictly positive.                                               *)
(***************************************************************************)
TransitionRowStochastic ==
    tpc = "built" =>
        /\ Len(T) = Len(vocabulary)
        /\ \A i \in 1..Len(T) :
              /\ Len(T[i]) = Len(vocabulary)
              /\ \A j \in 1..Len(T[i]) : T[i][j][1] > 0 /\ T[i][j][2] > 0
              /\ \A j \in 1..Len(T[i]) : T[i][j][2] = T[i][1][2]
              /\ SumSeq([j \in 1..Len(T[i]) |-> T[i][j][1]]) = T[i][1][2]

\* a three-label matrix with a row sharing 1 - p_self between two successors
\* (case C), a row whose successors are all unknown labels (case A) and an
\* epsilon so large that the forced self-loop is floored
TransitionRowStochasticWitness ==
    /\ tpc = "built"
    /\ Len(vocabulary) = 3
    /\ allowed_successors_map["A"] = {"A", "B", "C"}
    /\ allowed_successors_map["B"] = {UnknownLabel}
    /\ allowed_successors_map["C"] = {"A"}
    /\ epsilon_floor = <<1, 2>>
    /\ T[2][2][1] = T[2][1][1]
    /\ T[1][2][1] = T[1][3][1]

(***************************************************************************)
(* Bounded retry (core/utils/gemini_utils.py):                             *)
(*   "function"  generate_image_content_gemini_with_retry, lines 199-262   *)
(*   "batch"     the wrapper GeminiImageBatchProcessor._make_retry builds  *)
(*               around _call_once, lines 356-381, for one image           *)
(* One step is one call of the model endpoint with what follows it up to   *)
(* the next call.  attempt_log holds the outcome of every call made:       *)
(* Some(text) for an answer, None for a failed call.                       *)
(***************************************************************************)
MaxRetries == 5
RetryModes == {"function", "batch"}
ResponseTexts == {"A", "B", "Z"}

\* one more round than the loop of line 231 has
in_range_inclusive(attempt_index, retries) == attempt_index <= retries

\* line 231: for attempt in range(max_retries)
in_range(attempt_index, retries) == attempt_index < retries

\* line 360: stop_after_attempt(max_retries), asked after a failed attempt
stop_after_attempt(attempt_number, retries) == attempt_number >= retries

\* A processor is built with max_retries >= 1 (default 5); the function's
\* loop also accepts 0.
RetryInit ==
    /\ retry_mode \in RetryModes
    /\ max_retries \in (IF retry_mode = "batch" THEN 1 ELSE 0)..MaxRetries
    /\ attempt = 0
    /\ attempt_log = <<>>
    /\ response = None
    /\ gpc = "start"
    /\ CoreIdle /\ KeyframeIdle /\ WindowIdle /\ TransitionIdle

RetryUnchanged ==
    UNCHANGED <<retry_mode, max_retries, coreVars, keyframeVars, windowVars,
                transitionVars>>

\* lines 213-229: the image is encoded; a failure returns None at once; an
\* empty range(max_retries) falls through to line 262
EncodeImage ==
    /\ gpc = "start"
    /\ retry_mode = "function"
    /\ \E encoded \in BOOLEAN :
          IF encoded /\ in_range(attempt, max_retries)
          THEN gpc' = "calling"
          ELSE gpc' = "returned"
    /\ UNCHANGED <<attempt, attempt_log, response>>
    /\ RetryUnchanged

\* lines 232-245: the call answers and its text is returned
CallAnswers ==
    /\ gpc = "calling"
    /\ retry_mode = "function"
    /\ \E text \in ResponseTexts :
          /\ attempt_log' = Append(attempt_log, Some(text))
          /\ response' = Some(text)
    /\ gpc' = "returned"
    /\ UNCHANGED attempt
    /\ RetryUnchanged

\* lines 247-262: the call raises; the last round breaks out and returns
\* None, an earlier one sleeps and goes on (None when the sleep raises)
CallRaises ==
    /\ gpc = "calling"
    /\ retry_mode = "function"
    /\ attempt_log' = Append(attempt_log, None)
    /\ IF attempt + 1 = max_retries
       THEN gpc' = "returned" /\ UNCHANGED attempt
       ELSE \E slept \in BOOLEAN :
               IF slept /\ in_range(attempt + 1, max_retries)
               THEN gpc' = "calling" /\ attempt' = attempt + 1
               ELSE gpc' = "returned" /\ UNCHANGED attempt
    /\ UNCHANGED response
    /\ RetryUnchanged

\* the processor hands one image to the wrapped call
BatchStart ==
    /\ gpc = "start"
    /\ retry_mode = "batch"
    /\ gpc' = "calling"
    /\ attempt' = 1
    /\ UNCHANGED <<attempt_log, response>>
    /\ RetryUnchanged

\* lines 366, 380: _call_once answered, the text is returned
BatchCallAnswers ==
    /\ gpc = "calling"
    /\ retry_mode = "batch"
    /\ \E text \in ResponseTexts :
          /\ attempt_log' = Append(attempt_log, Some(text))
          /\ response' = Some(text)
    /\ gpc' = "returned"
    /\ UNCHANGED attempt
    /\ RetryUnchanged

\* lines 368-369: _call_once gave None, the wrapper raises; the retry
\* decorator calls again or, after max_retries attempts, re-raises
BatchCallFails ==
    /\ gpc = "calling"
    /\ retry_mode = "batch"
    /\ attempt_log' = Append(attempt_log, None)
    /\ IF stop_after_attempt(attempt, max_retries)
       THEN gpc' = "raised" /\ UNCHANGED attempt
       ELSE gpc' = "calling" /\ attempt' = attempt + 1
    /\ UNCHANGED response
    /\ RetryUnchanged

RetryNext ==
    \/ EncodeImage
    \/ CallAnswers
    \/ CallRaises
    \/ BatchStart
    \/ BatchCallAnswers
    \/ BatchCallFails

SpecRetry == RetryInit /\ [][RetryNext]_vars

RetryFinished == gpc \in {"returned", "raised"}

BoundedRetryBatchWitness ==
    /\ retry_mode = "batch"
    /\ gpc = "returned"
    /\ max_retries >= 3
    /\ Len(attempt_log) = max_retries
    /\ response # None

(***************************************************************************)
(* JsonCache over a damaged file (core/utils/cache_manager.py, lines       *)
(* 27-46 and 65-67): the file exists but does not hold a JSON document - a *)
(* document cut short by an interrupted write, a document followed by the  *)
(* tail of a longer one, NUL bytes - or cannot be opened.  Each process    *)
(* constructs its JsonCache; nothing is written.                           *)
(***************************************************************************)
MaxEntries == 2

\* the documents a cache file holds: up to MaxEntries timelines or nulls
CacheDocuments ==
    {d \in SeqsUpTo(VideoIds \X ({Some(t) : t \in Timelines} \cup {None}), 0, MaxEntries) :
        \A i, j \in 1..Len(d) : i # j => d[i][1] # d[j][1]}

CorruptContents ==
    {c \in UNION {{SubSeq(Ser(d), 1, n) : n \in 0..(Len(Ser(d)) - 1)} : d \in CacheDocuments}
             \cup {Ser(d) \o <<"}">> : d \in CacheDocuments}
             \cup {<<NUL>>, <<NUL, NUL>>} :
        Parse(c) = None}

CorruptInit ==
    /\ file_exists = TRUE
    /\ file_bytes \in CorruptContents
    /\ flock_sh = {} /\ flock_ex = {}
    /\ cache_data = [p \in Procs |-> <<>>]
    /\ wbuf = [p \in Procs |-> <<>>]
    /\ wpos = [p \in Procs |-> 0]
    /\ set_key \in [Procs -> {"v1"}]
    /\ set_value \in [Procs -> {None}]
    /\ cpc = [p \in Procs |-> "new"]
    /\ ViterbiIdle /\ ReconIdle /\ HybridIdle /\ ExecIdle /\ ExtraIdle

\* lines 30-31, 41-43: open raises IOError (the file cannot be read), the
\* cache starts empty
LoadUnreadable(p) ==
    /\ cpc[p] = "new"
    /\ file_exists
    /\ cache_data' = [cache_data EXCEPT ![p] = <<>>]
    /\ cpc' = [cpc EXCEPT ![p] = "unreadable"]
    /\ UNCHANGED <<fileVars, wbuf, wpos, set_key, set_value>>
    /\ CacheOthersUnchanged

CorruptNext ==
    \E p \in Procs :
        \/ LoadOpen(p)
        \/ LoadLock(p)
        \/ LoadRead(p)
        \/ LoadUnreadable(p)

SpecCorruptCache == CorruptInit /\ [][CorruptNext]_vars

(***************************************************************************)
(* C17: constructing a JsonCache over a file of invalid JSON, or over an   *)
(* unreadable file, does not raise, and get_item then returns null for     *)
(* every key.                                                              *)
(***************************************************************************)
CorruptCacheIsMiss ==
    \A p \in Procs :
        /\ cpc[p] \in {"new", "opened_r", "locked_r", "constructed", "unreadable"}
        /\ cpc[p] \in {"constructed", "unreadable"}
              => \A key \in VideoIds : get_item(cache_data[p], key) = None

\* a cache constructed by reading a file that was cut inside its second
\* entry, the first entry being complete
CorruptCacheIsMissWitness ==
    \E p \in Procs :
        /\ cpc[p] = "constructed"
        /\ Len(file_bytes) >= 9
        /\ file_bytes[4] \in VideoIds
        /\ file_bytes[5] = "["
        /\ Parse(file_bytes) = None
        /\ \A key \in VideoIds : get_item(cache_data[p], key) = None

(***************************************************************************)
(* generate_temporal_action_segments_grid_wise                             *)
(* (temporal_action_segmentation.py:35-112): one oracle call per window,   *)
(* then the matrices, viterbi_decode and the reconstruction.               *)
(*                                                                         *)
(* Probabilities are whole numbers of Nano-ths; log scores are whole       *)
(* numbers of thousandths of a nat.                                        *)
(***************************************************************************)
MaxWindows == 4                 \* most windows of a video
Nano == 1000000000              \* 1 / epsilon_floor, the default 1e-9
NullLabel == "None"             \* the oracle's None (no text after its retries)
ActionVocabularies == {<<"A", "B">>, <<"A", "B", "C">>}
WindowLengths == {1, 2}         \* clip length, the stride being 1
\* the scenario's graph, a graph without successors, a graph with
\* self-loops
SuccessorGraphs ==
    { [l \in {"A", "B", "C"} |->
          IF l = "A" THEN {"B"} ELSE IF l = "B" THEN {"A", "C"} ELSE {}],
      [l \in {"A", "B", "C"} |-> {}],
      [l \in {"A", "B", "C"} |->
          IF l = "A" THEN {"A", "B"} ELSE IF l = "B" THEN {"B", "C"} ELSE {"C"}] }

\* ---- math.log / np.log on positive whole numbers ----
RECURSIVE FloorLog2(_)
FloorLog2(n) == IF n < 2 THEN 0 ELSE 1 + FloorLog2(n \div 2)

RECURSIVE Pow2(_)
Pow2(k) == IF k = 0 THEN 1 ELSE 2 * Pow2(k - 1)

\* n / 2^FloorLog2(n) in units of 2^-14, a value in [2^14, 2^15)
Mantissa(n, k) == IF k >= 14 THEN n \div Pow2(k - 14) ELSE n * Pow2(14 - k)

\* the binary digits of log2 of a mantissa, by repeated squaring
RECURSIVE Log2Frac(_, _, _)
Log2Frac(m, bits, acc) ==
    IF bits = 0 THEN acc
    ELSE IF (m * m) \div 16384 >= 32768
         THEN Log2Frac((m * m) \div 32768, bits - 1, 2 * acc + 1)
         ELSE Log2Frac((m * m) \div 16384, bits - 1, 2 * acc)

Log2Q12(n) == FloorLog2(n) * 4096 + Log2Frac(Mantissa(n, FloorLog2(n)), 12, 0)

\* ln(n) in thousandths, n >= 1
LnMilli(n) == (Log2Q12(n) * 6931 + 20480) \div 40960

\* ln(num / den) in thousandths
LogRatio(num, den) == LnMilli(num) - LnMilli(den)

\* ---- the pipeline's matrices ----
\* lines 77-84: build_transition_matrix with p_self = 0.5 and the default
\* epsilon_floor, then np.log(transition_matrix + 1e-12); the added 1e-12
\* is a thousandth of the smallest entry
pipeline_log_transition_matrix(labels, successors_map) ==
    [i \in 1..Len(labels) |->
        CHOOSE r \in {[j \in 1..Len(row) |-> LogRatio(row[j][1], row[j][2])] :
                         row \in {normalize_row(
                                     transition_row(labels, successors_map, i,
                                                    Nano \div 2, 1, Nano), Nano)}} : TRUE]

\* an emission row that reads an unknown label as the first label
emission_row_guessed(observed_label_str, labels, log_prob_correct, log_prob_incorrect) ==
    [k \in 1..Len(labels) |->
        IF labels[k] = observed_label_str
           \/ (observed_label_str \notin RangeOf(labels) /\ k = 1)
        THEN log_prob_correct ELSE log_prob_incorrect]

\* viterbi_decoding_utils.py:198-216: one row of log_scores; a label that
\* is not a key of action_label_to_id_map leaves the row at
\* log_prob_incorrect (lines 202-205)
emission_row(observed_label_str, labels, log_prob_correct, log_prob_incorrect) ==
    [k \in 1..Len(labels) |->
        IF labels[k] = observed_label_str THEN log_prob_correct ELSE log_prob_incorrect]

\* viterbi_decoding_utils.py:145-218 with the default p_correct_emission
\* = 0.8 = 4/5 and K >= 2: p_incorrect_emission = (1/5) / (K - 1)
build_soft_emission_matrix(sequence, labels) ==
    [i \in 1..Len(sequence) |->
        emission_row(sequence[i][1], labels,
                     LogRatio(4, 5), LogRatio(1, 5 * (Len(labels) - 1)))]

\* line 95: np.log(np.full((K,), 1.0 / K))
uniform_logPi(labels) == [k \in 1..Len(labels) |-> LogRatio(1, Len(labels))]

\* step 1 of the reconstruction with each window's end before its start
unmerged_sequence_reversed(path, sequence, labels) ==
    [i \in 1..Len(path) |-> <<labels[path[i]], <<sequence[i][2][2], sequence[i][2][1]>>>>]

\* viterbi_decoding_utils.py:297-317: step 1 of the reconstruction, for
\* the id -> label map of the vocabulary `labels`
unmerged_sequence(path, sequence, labels) ==
    [i \in 1..Len(path) |-> <<labels[path[i]], sequence[i][2]>>]

\* the loop left after its first window
loop_exhausted_early(done, windows) == done >= 1

\* line 55: the for loop ends when every window has been visited
loop_exhausted(done, windows) == done >= Len(windows)

\* temporal_utils.py:13-74 through process_video_to_grids: the windows of
\* a video, consecutive starts, one common length
WindowsOf(m, len) == [i \in 1..m |-> <<i - 1, i - 1 + len>>]

SegmenterInit ==
    /\ segmenter_action_labels \in ActionVocabularies
    /\ action_labels_successors_map \in SuccessorGraphs
    /\ grid_images_result
         \in {None} \cup {Some(WindowsOf(m, len)) : m \in 1..MaxWindows, len \in WindowLengths}
    /\ temporal_sequence = <<>>
    /\ smoothed_temporal_sequence = <<>>
    /\ spc = "start"
    /\ ViterbiIdle /\ ReconIdle /\ HybridIdle /\ CacheIdle /\ ExecIdle
    /\ KeyframeIdle /\ WindowIdle /\ TransitionIdle /\ RetryIdle /\ ToolIdle /\ BatchIdle

SegmenterUnchanged ==
    UNCHANGED <<segmenter_action_labels, action_labels_successors_map, grid_images_result,
                reconVars, hybridVars, fileVars, cacheVars, execVars, keyframeVars,
                windowVars, transitionVars, retryVars, toolVars, batchVars>>

\* line 55 on the None that process_video_to_grids returns after an
\* exception: iterating it raises TypeError
GridsFailed ==
    /\ spc = "start"
    /\ grid_images_result = None
    /\ spc' = "TypeError"
    /\ UNCHANGED <<temporal_sequence, smoothed_temporal_sequence, viterbiVars>>
    /\ SegmenterUnchanged

\* lines 55-70: one iteration of the loop; the oracle answers a label of
\* the vocabulary, some other text, or None
LabelWindow ==
    /\ spc \in {"start", "labelling"}
    /\ grid_images_result # None
    /\ ~loop_exhausted(Len(temporal_sequence), grid_images_result[1])
    /\ \E action_label \in RangeOf(segmenter_action_labels) \cup {UnknownLabel, NullLabel} :
          temporal_sequence' =
              Append(temporal_sequence,
                     <<action_label, grid_images_result[1][Len(temporal_sequence) + 1]>>)
    /\ spc' = "labelling"
    /\ UNCHANGED <<smoothed_temporal_sequence, viterbiVars>>
    /\ SegmenterUnchanged

\* lines 72-112: after the loop, the matrices, viterbi_decode (98-102) and
\* reconstruct_temporal_action_sequence (105-110), whose first statement
\* raises ValueError when the path and the sequence differ in length
DecodeAndReconstruct ==
    /\ spc = "labelling"
    /\ loop_exhausted(Len(temporal_sequence), grid_images_result[1])
    /\ logPi' = uniform_logPi(segmenter_action_labels)
    /\ log_transition_matrix'
          = pipeline_log_transition_matrix(segmenter_action_labels, action_labels_successors_map)
    /\ log_emission_matrix' = build_soft_emission_matrix(temporal_sequence, segmenter_action_labels)
    /\ best_path' = viterbi_decode(logPi', log_transition_matrix', log_emission_matrix')
    /\ vpc' = "decoded"
    /\ IF Len(best_path') # Len(temporal_sequence)
       THEN /\ spc' = "ValueError"
            /\ UNCHANGED smoothed_temporal_sequence
       ELSE /\ spc' = "returned"
            /\ smoothed_temporal_sequence'
                  = merge_sequence(unmerged_sequence(best_path', temporal_sequence,
                                                     segmenter_action_labels))
    /\ UNCHANGED temporal_sequence
    /\ SegmenterUnchanged

SegmenterNext == GridsFailed \/ LabelWindow \/ DecodeAndReconstruct

SpecSegmenter == SegmenterInit /\ [][SegmenterNext]_vars

\* the windows whose observed label is not a label of the vocabulary
UnknownWindows ==
    {i \in 1..Len(temporal_sequence) : temporal_sequence[i][1] \notin RangeOf(segmenter_action_labels)}

\* a timeline: labelled segments of the vocabulary, none ending before
\* it starts, no two neighbours sharing a label
IsTimeline(timeline) ==
    /\ \A s \in 1..Len(timeline) :
          /\ timeline[s][1] \in RangeOf(segmenter_action_labels)
          /\ timeline[s][2][1] <= timeline[s][2][2]
    /\ \A s \in 1..(Len(timeline) - 1) : timeline[s][1] # timeline[s + 1][1]

(***************************************************************************)
(* C16: when the label observed for a window is not in the vocabulary      *)
(* (a foreign text or the oracle's None), the pipeline does not raise: it  *)
(* decodes and returns a non-empty timeline, and that window's emission    *)
(* row holds one value for every hidden state.                             *)
(***************************************************************************)
UnknownLabelAbsorbed ==
    /\ spc # "ValueError"
    /\ (vpc = "decoded" /\ UnknownWindows # {}) =>
          /\ spc = "returned"
          /\ \A i \in UnknownWindows :
                \A k \in 1..Len(segmenter_action_labels) :
                   log_emission_matrix[i][k] = log_emission_matrix[i][1]
          /\ Len(best_path) = Len(temporal_sequence)
          /\ smoothed_temporal_sequence # <<>>
          /\ IsTimeline(smoothed_temporal_sequence)

\* a returned timeline of a run in which the oracle answered a foreign
\* text for one window, None for another and a vocabulary label for a third
UnknownLabelAbsorbedWitness ==
    /\ spc = "returned"
    /\ \E i, j, k \in 1..Len(temporal_sequence) :
          /\ temporal_sequence[i][1] = UnknownLabel
          /\ temporal_sequence[j][1] = NullLabel
          /\ temporal_sequence[k][1] \in RangeOf(segmenter_action_labels)
          /\ log_emission_matrix[k][1] # log_emission_matrix[k][2]
    /\ smoothed_temporal_sequence # <<>>

(***************************************************************************)
(* C19: viterbi_decode runs only after one observation has been recorded   *)
(* for each of the M windows, in window order; before that nothing is      *)
(* decoded.                                                                *)
(***************************************************************************)
ObservationBarrier ==
    /\ vpc = "decoded" =>
          /\ grid_images_result # None
          /\ Len(temporal_sequence) = Len(grid_images_result[1])
          /\ \A i \in 1..Len(temporal_sequence) :
                temporal_sequence[i][2] = grid_images_result[1][i]
          /\ Len(log_emission_matrix) = Len(grid_images_result[1])
    /\ (grid_images_result # None
          /\ Len(temporal_sequence) < Len(grid_images_result[1]))
         => vpc = "off" /\ best_path = <<>> /\ spc \in {"start", "labelling"}

\* a decoded run over several windows
ObservationBarrierWitness ==
    /\ vpc = "decoded"
    /\ Len(temporal_sequence) = MaxWindows
    /\ Len(best_path) = MaxWindows

(***************************************************************************)
(* C20: the scenario.  With the graph A -> B, B -> A or C, C -> nothing,   *)
(* p_self = 0.5, p_correct = 0.8, a uniform prior and the observations     *)
(* A, A, C, A over four consecutive 1-second windows, the decoded path     *)
(* has at most one run of C, and the merged timeline has at most 4         *)
(* segments, none ending before it starts.                                 *)
(***************************************************************************)
ScenarioRun ==
    /\ segmenter_action_labels = <<"A", "B", "C">>
    /\ action_labels_successors_map
          = [l \in {"A", "B", "C"} |->
                IF l = "A" THEN {"B"} ELSE IF l = "B" THEN {"A", "C"} ELSE {}]
    /\ temporal_sequence
          = <<  <<"A", <<0, 1>>>>, <<"A", <<1, 2>>>>, <<"C", <<2, 3>>>>, <<"A", <<3, 4>>>>  >>
    /\ spc # "labelling"

\* the number of maximal runs of state s in a path
Visits(path, s) ==
    Cardinality({t \in 1..Len(path) : path[t] = s /\ (t = 1 \/ path[t - 1] # s)})

ScenarioTimeline ==
    ScenarioRun =>
        /\ spc = "returned"
        /\ Len(best_path) = 4
        /\ Visits(best_path, 3) <= 1
        /\ Len(smoothed_temporal_sequence) <= 4
        /\ smoothed_temporal_sequence # <<>>
        /\ \A s \in 1..Len(smoothed_temporal_sequence) :
              smoothed_temporal_sequence[s][2][2] >= smoothed_temporal_sequence[s][2][1]

\* the scenario decoded: the path A, B, C, C, merged into three segments
ScenarioTimelineWitness ==
    /\ ScenarioRun
    /\ spc = "returned"
    /\ best_path = <<1, 2, 3, 3>>
    /\ smoothed_temporal_sequence
          = <<  <<"A", <<0, 1>>>>, <<"B", <<1, 2>>>>, <<"C", <<2, 4>>>>  >>

(***************************************************************************)
(* TemporalActionSegmentationTool.run                                      *)
(* (temporal_action_segmentation.py:152-181) over process_video_to_grids   *)
(* (temporal_utils.py:204-264) and the pipeline above.                     *)
(***************************************************************************)
ToolDurations == {0, 2, MaxDuration}
ToolStrides == {0, 2}
ToolVocabularies == {<<>>, <<"A", "B">>}

\* a list of one default window in place of the None
grids_or_default(windowing, clip_time_segments_list, sampling_failed) ==
    IF windowing = "returned" /\ ~sampling_failed
    THEN Some(clip_time_segments_list) ELSE Some(<<  <<0, 0>>  >>)

\* temporal_utils.py:225-264: the windows of the clips, one grid each, or
\* None when the windowing (lines 235-237) or the sampling (262-264) raised
grids_or_none(windowing, clip_time_segments_list, sampling_failed) ==
    IF windowing = "returned" /\ ~sampling_failed
    THEN Some(clip_time_segments_list) ELSE None

\* temporal_action_segmentation.py:114-130
format_temporal_action_segmentation_output(temporal_action_sequence) ==
    [s \in 1..Len(temporal_action_sequence) |->
        [action_label |-> temporal_action_sequence[s][1],
         start_time |-> temporal_action_sequence[s][2][1],
         end_time |-> temporal_action_sequence[s][2][2]]]

ToolInit ==
    /\ video_file_exists \in BOOLEAN
    /\ cap_opened \in BOOLEAN
    /\ video_duration \in ToolDurations
    /\ num_clips \in 0..MaxClips
    /\ clip_stride \in ToolStrides
    /\ segments = <<>>
    /\ wpc = "input"
    /\ segmenter_action_labels \in ToolVocabularies
    /\ action_labels_successors_map = [l \in {"A", "B", "C"} |-> {}]
    /\ grid_images_result = None
    /\ temporal_sequence = <<>>
    /\ smoothed_temporal_sequence = <<>>
    /\ spc = "off"
    /\ formatted_output = None
    /\ run_pc = "start"
    /\ ViterbiIdle /\ ReconIdle /\ HybridIdle /\ CacheIdle /\ ExecIdle
    /\ KeyframeIdle /\ TransitionIdle /\ RetryIdle /\ BatchIdle

ToolOthersUnchanged ==
    UNCHANGED <<reconVars, hybridVars, fileVars, cacheVars, execVars, keyframeVars,
                transitionVars, retryVars, batchVars>>

\* lines 161-166 and 178-180: a missing file or an empty vocabulary
\* raises inside the try; run returns None
ToolRunRejects ==
    /\ run_pc = "start"
    /\ ~video_file_exists \/ segmenter_action_labels = <<>>
    /\ formatted_output' = None
    /\ run_pc' = "returned"
    /\ UNCHANGED <<video_file_exists, cap_opened, viterbiVars, windowVars, segmenterVars>>
    /\ ToolOthersUnchanged

\* lines 168-175: the call of generate_temporal_action_segments_grid_wise
ToolRunStarts ==
    /\ run_pc = "start"
    /\ video_file_exists /\ segmenter_action_labels # <<>>
    /\ run_pc' = "windowing"
    /\ UNCHANGED <<video_file_exists, cap_opened, formatted_output, viterbiVars,
                   windowVars, segmenterVars>>
    /\ ToolOthersUnchanged

\* temporal_utils.py:36-37: cv2 cannot open the file
CaptureNotOpened ==
    /\ run_pc = "windowing"
    /\ wpc = "input"
    /\ ~cap_opened
    /\ wpc' = "RuntimeError"
    /\ UNCHANGED <<video_duration, num_clips, clip_stride, segments>>
    /\ UNCHANGED <<toolVars, viterbiVars, segmenterVars>>
    /\ ToolOthersUnchanged

\* temporal_utils.py:39-74 inside process_video_to_grids
ToolWindowing ==
    /\ run_pc = "windowing"
    /\ cap_opened
    /\ WindowingRaises \/ ClipLengthRaises \/ GenerateSegments

\* temporal_utils.py:225-264 and temporal_action_segmentation.py:46-53
ProcessVideoToGrids ==
    /\ run_pc = "windowing"
    /\ wpc # "input"
    /\ \E sampling_failed \in BOOLEAN :
          grid_images_result' = grids_or_none(wpc, segments, sampling_failed)
    /\ spc' = "start"
    /\ run_pc' = "labelling"
    /\ UNCHANGED <<video_file_exists, cap_opened, formatted_output, viterbiVars, windowVars,
                   segmenter_action_labels, action_labels_successors_map,
                   temporal_sequence, smoothed_temporal_sequence>>
    /\ ToolOthersUnchanged

\* temporal_action_segmentation.py:55-112
ToolPipeline ==
    /\ run_pc = "labelling"
    /\ GridsFailed \/ LabelWindow \/ DecodeAndReconstruct

\* lines 177-178: the formatted timeline is returned
ToolRunReturns ==
    /\ run_pc = "labelling"
    /\ spc = "returned"
    /\ formatted_output'
          = Some(format_temporal_action_segmentation_output(smoothed_temporal_sequence))
    /\ run_pc' = "returned"
    /\ UNCHANGED <<video_file_exists, cap_opened, viterbiVars, windowVars, segmenterVars>>
    /\ ToolOthersUnchanged

\* lines 179-181: any exception of the pipeline is caught; run returns None
ToolRunCatches ==
    /\ run_pc = "labelling"
    /\ spc \in {"TypeError", "ValueError"}
    /\ formatted_output' = None
    /\ run_pc' = "returned"
    /\ UNCHANGED <<video_file_exists, cap_opened, viterbiVars, windowVars, segmenterVars>>
    /\ ToolOthersUnchanged

ToolNext ==
    \/ ToolRunRejects \/ ToolRunStarts \/ CaptureNotOpened \/ ToolWindowing
    \/ ProcessVideoToGrids \/ ToolPipeline \/ ToolRunReturns \/ ToolRunCatches

SpecSegmenterTool == ToolInit /\ [][ToolNext]_vars

\* a video without frames, a file that is missing or cannot be opened, or
\* a request for no window
InsufficientInput ==
    \/ ~video_file_exists \/ ~cap_opened \/ video_duration <= 0 \/ num_clips = 0

(***************************************************************************)
(* C21: for a video without length, a video that cannot be read, or a      *)
(* request for zero windows, the segmenter's run ends with the error       *)
(* outcome (None) handed to its caller: no window is labelled, nothing is  *)
(* decoded, and no timeline, empty or not, is returned.                    *)
(***************************************************************************)
InsufficientInputFails ==
    (run_pc # "off" /\ InsufficientInput) =>
        /\ formatted_output = None
        /\ temporal_sequence = <<>>
        /\ smoothed_temporal_sequence = <<>>
        /\ vpc = "off"
        /\ spc \notin {"labelling", "returned"}

\* run has returned None for a readable video of positive length and a
\* request for zero windows, after the division of line 49 raised
InsufficientInputFailsWitness ==
    /\ run_pc = "returned"
    /\ video_file_exists /\ cap_opened /\ video_duration > 0 /\ num_clips = 0
    /\ wpc = "ZeroDivisionError"
    /\ spc = "TypeError"
    /\ formatted_output = None

(***************************************************************************)
(* C22: in the list returned by generate_overlapping_clip_time_segments    *)
(* for a stride 0 < S <= D, with D = (L + (M-1)*S)/M, window i+1 starts S  *)
(* after window i and adjacent windows overlap by D - S (each to within    *)
(* the hundredth of a second that round(_, 2) can move a time).            *)
(***************************************************************************)
WindowStride ==
    (wpc = "returned" /\ clip_stride > 0 /\ clip_stride <= video_duration) =>
        \A i \in 1..(Len(segments) - 1) :
           /\ Abs(Centi * (segments[i + 1][1] - segments[i][1]) - clip_stride) <= Centi
           /\ Abs(num_clips * Centi * (segments[i][2] - segments[i + 1][1])
                    - (video_duration - clip_stride)) <= num_clips * Centi

\* The cell the three branches of the claim give to T[i][j] before the
\* renormalisation, in units of 1/Scale; `floored` tells whether a value
\* below epsilon_floor is raised to epsilon_floor.
BranchCell(i, j, floored) ==
    LET K == Len(vocabulary)
        one == Scale(vocabulary, epsilon_floor)
        p == (p_self * one) \div PSelfSteps
        e == (epsilon_floor[1] * one) \div epsilon_floor[2]
        declared == allowed_successors_map[vocabulary[i]] \cap RangeOf(vocabulary)
        others == declared \ {vocabulary[i]}
        n == Cardinality(others)
        raised(x) == IF floored THEN Max(x, e) ELSE x
    IN  IF j # i /\ vocabulary[j] \notin declared THEN e
        ELSE IF n = 0 THEN raised(one - (K - 1) * e)
        ELSE IF vocabulary[i] \in declared
             THEN (IF j = i THEN p ELSE raised((one - p) \div n))
             ELSE (IF j = i THEN e ELSE raised((one - e) \div n))

(***************************************************************************)
(* C23, as stated: before the renormalisation every cell of the matrix is  *)
(* the value of its branch: 1 - (K-1)*epsilon on the diagonal of a row     *)
(* without declared non-self successors, p_self and (1 - p_self)/n in a    *)
(* row declaring itself and n others, epsilon and (1 - epsilon)/n in a row *)
(* declaring n others without itself, epsilon in every undeclared cell.    *)
(***************************************************************************)
TransitionBranchesUnfloored ==
    tpc = "built" =>
        \A i \in 1..Len(T) : \A j \in 1..Len(T[i]) : T[i][j][1] = BranchCell(i, j, FALSE)

(***************************************************************************)
(* C23, amended: the same, each branch value below epsilon being replaced  *)
(* by epsilon.                                                             *)
(***************************************************************************)
TransitionBranches ==
    tpc = "built" =>
        \A i \in 1..Len(T) : \A j \in 1..Len(T[i]) : T[i][j][1] = BranchCell(i, j, TRUE)

\* a three-label matrix with one row of each branch, the forced self-loop
\* of the first being floored
TransitionBranchesWitness ==
    /\ tpc = "built"
    /\ Len(vocabulary) = 3
    /\ allowed_successors_map["A"] = {"A"}
    /\ allowed_successors_map["B"] = {"A", "B", "C"}
    /\ allowed_successors_map["C"] = {"A", UnknownLabel}
    /\ epsilon_floor = <<1, 2>>
    /\ T[1][1][1] # BranchCell(1, 1, FALSE)
    /\ T[2][1][1] = T[2][3][1]
    /\ T[3][3][1] = T[3][2][1]

\* the candidates that KMeans put in the cluster of candidate m
ClusterOf(m) == {c \in 1..Len(cluster_labels) : cluster_labels[c] = cluster_labels[m]}

\* |embedding - centroid| of candidate m, times the size of its cluster
\* (the centroid being the mean of the cluster's members)
DistanceToOwnCentroid(m) ==
    Abs(embeddings_np[1][m] * Cardinality(ClusterOf(m))
          - SumOver(embeddings_np[1], ClusterOf(m)))

(***************************************************************************)
(* C24: after a clustering of N > K candidates, every returned item is an  *)
(* input candidate with its own timestamp and is a member of its cluster   *)
(* nearest that cluster's centroid; no two items come from one cluster (so *)
(* no candidate is returned twice); at most K items are returned, none of  *)
(* them standing in for a cluster without members; the items are in        *)
(* ascending timestamp order.                                              *)
(***************************************************************************)
KeyframesAreNearestMembers ==
    kpc = "clustered" =>
        /\ Len(candidate_timestamps) > num_keyframes
        /\ Len(selected_keyframes) <= num_keyframes
        /\ \A s \in 1..Len(selected_keyframes) :
              /\ selected_keyframes[s][1] \in 1..Len(candidate_timestamps)
              /\ selected_keyframes[s][2] = candidate_timestamps[selected_keyframes[s][1]]
              /\ \A m \in ClusterOf(selected_keyframes[s][1]) :
                    DistanceToOwnCentroid(selected_keyframes[s][1])
                       <= DistanceToOwnCentroid(m)
        /\ \A s, t \in 1..Len(selected_keyframes) :
              s # t => cluster_labels[selected_keyframes[s][1]]
                          # cluster_labels[selected_keyframes[t][1]]
        /\ \A s \in 1..(Len(selected_keyframes) - 1) :
              selected_keyframes[s][2] <= selected_keyframes[s + 1][2]

\* two items, one of them the nearest of a cluster whose members lie at
\* different distances from their centroid, and not the first of them
KeyframesAreNearestMembersWitness ==
    /\ kpc = "clustered"
    /\ Len(selected_keyframes) = 2
    /\ \E s \in 1..Len(selected_keyframes) :
          \E m \in ClusterOf(selected_keyframes[s][1]) :
             /\ m < selected_keyframes[s][1]
             /\ DistanceToOwnCentroid(m) > DistanceToOwnCentroid(selected_keyframes[s][1])

(***************************************************************************)
(* C25: retrieve_relevant_keyframes and retrieve_relevant_audio_segments   *)
(* run the search their search_strategy names: "hybrid" returns the        *)
(* re-ranked hits of the merged search, "clip" / "clap" the hits of the    *)
(* signal-embedding search alone, "description" / "transcript" the hits of *)
(* the semantic-embedding search alone (each cut by the score threshold    *)
(* when one is given).                                                     *)
(***************************************************************************)
StrategyDispatch ==
    /\ hpc \in {"retrieve_keyframes_hybrid", "retrieve_audio_hybrid"} =>
          retrieved = Some(FilterByThreshold(
                              search_hybrid(signal_ranking, semantic_ranking, limit,
                                            w_signal, w_semantic),
                              score_threshold))
    /\ hpc \in {"retrieve_keyframes_clip", "retrieve_audio_clap"} =>
          retrieved = Some(FilterByThreshold(search_by_signal(signal_ranking, limit),
                                             score_threshold))
    /\ hpc \in {"retrieve_keyframes_description", "retrieve_audio_transcript"} =>
          retrieved = Some(FilterByThreshold(search_by_semantic(semantic_ranking, limit),
                                             score_threshold))

(***************************************************************************)
(* C26: when two requests, each with its own JsonCache over the one cache  *)
(* file, store timelines for two different video ids, then once both       *)
(* set_item calls have returned a newly constructed JsonCache (it loads    *)
(* the file) returns both timelines.                                       *)
(***************************************************************************)
NoLostUpdate ==
    (/\ \A p \in Procs : cpc[p] = "done"
     /\ set_key["p1"] # set_key["p2"])
        => \A p \in Procs :
              get_item(LoadedData(file_bytes), set_key[p]) = set_value[p]

\* the documents the cache file may hold before any request
InitialDocuments == {<<>>} \cup {<<  <<k, Some(t)>>  >> : k \in VideoIds, t \in Timelines}

\* the states of a process inside set_item, after the in-memory update
InsideSetItem == {"saving", "opened_w", "locked_w", "dumped", "unlocked", "done"}

(***************************************************************************)
(* C27: a JsonCache constructed while another instance executes set_item   *)
(* on the same file has loaded either the complete content from before the *)
(* write or the complete content after it, never an empty or partial one.  *)
(***************************************************************************)
AtomicVisibility ==
    \A r, w \in Procs :
       (r # w /\ cpc[r] = "constructed" /\ cpc[w] \in InsideSetItem) =>
           \E before \in InitialDocuments :
              /\ cache_data[w] = Put(before, set_key[w], set_value[w])
              /\ cache_data[r] \in {before, cache_data[w]}

(***************************************************************************)
(* C28: a failed segmentation is never served from the cache.  A pass      *)
(* through the TEMPORAL branch is answered from the cache only with a      *)
(* timeline that a successful run stored for the video id; while no run    *)
(* has succeeded for the id, every pass either raises before the tool or   *)
(* runs the tool; a pass that raises before the tool leaves the cache and  *)
(* its file as they were; and after a run that returned null, a load of    *)
(* the file misses for the id.                                             *)
(***************************************************************************)
FailureNotCached ==
    [][(/\ Len(attempts') = Len(attempts) + 1
        /\ attempts'[Len(attempts')].branch = "TEMPORAL")
           => LET a == attempts'[Len(attempts')]
              IN  /\ (~a.ran /\ ~a.failed)
                        => /\ a.output # None
                           /\ a.output = stored[video_id]
                           /\ Lookup(tool_outputs', TemporalTool) = a.output
                  /\ stored[video_id] = None
                        => \/ a.failed /\ ~a.ran
                           \/ a.ran /\ segmenter_runs' = segmenter_runs + 1
                  /\ (a.failed /\ ~a.ran)
                        => UNCHANGED <<file_exists, file_bytes, cache_data, stored>>
                  /\ (a.failed /\ a.ran)
                        => /\ stored' = stored
                           /\ get_item(LoadedData(file_bytes'), video_id) = None]_vars

\* a run whose segmentation returned null and whose next pass through the
\* TEMPORAL branch ran the tool again, this time storing a timeline
FailureNotCachedWitness ==
    /\ epc = "returned" /\ video_id # ""
    /\ Len(attempts) = 2
    /\ attempts[1].branch = "TEMPORAL" /\ attempts[1].ran /\ attempts[1].failed
    /\ attempts[2].branch = "TEMPORAL" /\ attempts[2].ran /\ ~attempts[2].failed
    /\ segmenter_runs = 2
    /\ get_item(LoadedData(file_bytes), video_id) = attempts[2].output

(***************************************************************************)
(* C29: when the windows have non-decreasing start times, non-decreasing   *)
(* end times and start <= end each, every segment of the merged Timeline   *)
(* has start_time <= end_time, the segments' start times and end times are *)
(* non-decreasing, there are at most as many segments as windows, and      *)
(* every segment's label is a member of the vocabulary.                    *)
(***************************************************************************)
MonotoneWindows(w) ==
    /\ \A i \in 1..Len(w) : w[i][1] <= w[i][2]
    /\ \A i \in 1..(Len(w) - 1) : w[i][1] <= w[i + 1][1] /\ w[i][2] <= w[i + 1][2]

TimelineOrdered ==
    (/\ rpc = "done" /\ merge_consecutive
     /\ MonotoneWindows([i \in 1..Len(original_input_sequence) |->
                             original_input_sequence[i][2]]))
        => /\ MonotoneWindows([k \in 1..Len(smoothed) |-> smoothed[k][2]])
           /\ Len(smoothed) <= Len(original_input_sequence)
           /\ \A k \in 1..Len(smoothed) :
                 smoothed[k][1] \in {action_labels_list[j] : j \in StateIds}

\* overlapping windows moving forward in time, some of them merged, and a
\* Timeline of two segments of which the second starts before the first ends
TimelineOrderedWitness ==
    /\ rpc = "done" /\ merge_consecutive
    /\ MonotoneWindows([i \in 1..Len(original_input_sequence) |->
                            original_input_sequence[i][2]])
    /\ Len(original_input_sequence) = MaxM
    /\ Len(smoothed) = 2
    /\ smoothed[1][2][1] < smoothed[2][2][1]
    /\ smoothed[2][2][1] < smoothed[1][2][2]
    /\ smoothed[1][2][2] <= smoothed[2][2][2]

\* the windows of generate_overlapping_clip_time_segments are of that kind
WindowsAreMonotone == wpc = "returned" => MonotoneWindows(segments)

\* the same for the Timeline the pipeline returns on its own windows
PipelineTimelineOrdered ==
    spc = "returned"
        => /\ MonotoneWindows([k \in 1..Len(smoothed_temporal_sequence) |->
                                   smoothed_temporal_sequence[k][2]])
           /\ Len(smoothed_temporal_sequence) <= Len(temporal_sequence)
           /\ \A k \in 1..Len(smoothed_temporal_sequence) :
                 \E j \in 1..Len(segmenter_action_labels) :
                    smoothed_temporal_sequence[k][1] = segmenter_action_labels[j]

(***************************************************************************)
(* GeminiImageBatchProcessor.process_batch (core/utils/gemini_utils.py)    *)
(* under KeyframeCaptionerTool.run (tools/grounding/keyframe_captioner.py) *)
(*                                                                         *)
(* pool.map submits one future per image; the pool's workers take the      *)
(* futures in submission order, at most max_workers at a time, and finish  *)
(* in any order.  A worker calls the endpoint until it answers or the      *)
(* attempts are used up, then validates the answer (outside the retry).    *)
(* list(...) consumes the futures' results in input order.  An image is    *)
(* its keyframe id, and a conforming answer describes the image it was     *)
(* asked about; every retrieved keyframe is taken to load from the object  *)
(* store.                                                                  *)
(***************************************************************************)
MaxImages == 3
BatchMaxRetries == 2            \* max_retries (5 in the tool)
BatchMaxWorkers == 2            \* max_workers (4 in the tool)
ImageIds == {"k1", "k2"}

RunningFutures == {i \in DOMAIN futures : futures[i].state = "running"}

\* helpers.py:47-72: the validated dict, or None for the ValueError raised
\* when no JSON is found, it does not parse or it does not fit the schema
extract_and_validate_json_from_llm_response(raw_text) ==
    IF raw_text.kind = "json" THEN Some([description |-> raw_text.about]) ELSE None

\* the futures consumed in the order in which they finish
pool_map_as_completed(order, consumed) ==
    IF Len(consumed) < Len(order) THEN order[Len(consumed) + 1] ELSE 0

\* lines 427-430: pool.map yields the results in the order of pil_images
pool_map_next(order, consumed) == Len(consumed) + 1

\* keyframe_captioner.py:69-86: zip of the keyframes and the descriptions
format_keyframe_captioner_output(keyframes, descriptions) ==
    [i \in 1..Min(Len(keyframes), Len(descriptions)) |->
        [keyframe_id |-> keyframes[i],
         keyframe_description |-> descriptions[i].description]]

BatchInit ==
    /\ \E n \in 0..MaxImages : pil_images \in SeqsOfLen(ImageIds, n)
    /\ futures = [i \in 1..Len(pil_images) |->
                     [state |-> "queued", attempts |-> 0, result |-> None, error |-> ""]]
    /\ finish_order = <<>>
    /\ keyframe_description_results = <<>>
    /\ captioner_output = None
    /\ bpc = "mapping"
    /\ ViterbiIdle /\ ReconIdle /\ HybridIdle /\ CacheIdle /\ ExecIdle /\ SegmenterIdle
    /\ ToolIdle /\ KeyframeIdle /\ WindowIdle /\ TransitionIdle /\ RetryIdle

BatchOthersUnchanged ==
    UNCHANGED <<viterbiVars, reconVars, hybridVars, fileVars, cacheVars, execVars,
                keyframeVars, windowVars, transitionVars, retryVars, segmenterVars,
                toolVars>>

\* ThreadPoolExecutor: a free worker takes the oldest queued future
WorkerTakes ==
    /\ \E i \in DOMAIN futures :
          /\ futures[i].state = "queued"
          /\ \A j \in 1..(i - 1) : futures[j].state # "queued"
          /\ Cardinality(RunningFutures) < BatchMaxWorkers
          /\ futures' = [futures EXCEPT ![i].state = "running"]
    /\ UNCHANGED <<pil_images, finish_order, keyframe_description_results,
                   captioner_output, bpc>>
    /\ BatchOthersUnchanged

\* lines 358-370 over generate_image_content_with_gemini (lines 154-197):
\* the call returns None, "Empty response" is raised and tenacity retries
\* until stop_after_attempt, then re-raises
WorkerGetsNone ==
    /\ \E i \in RunningFutures :
          LET attempt_number == futures[i].attempts + 1
          IN  IF attempt_number >= BatchMaxRetries
              THEN /\ futures' = [futures EXCEPT ![i] =
                                     [state |-> "raised", attempts |-> attempt_number,
                                      result |-> None, error |-> "Exception"]]
                   /\ finish_order' = Append(finish_order, i)
              ELSE /\ futures' = [futures EXCEPT ![i].attempts = attempt_number]
                   /\ UNCHANGED finish_order
    /\ UNCHANGED <<pil_images, keyframe_description_results, captioner_output, bpc>>
    /\ BatchOthersUnchanged

\* lines 403-415: the call returns text; _process_image validates it
WorkerAnswers ==
    /\ \E i \in RunningFutures, kind \in {"json", "prose"} :
          LET raw == [kind |-> kind, about |-> pil_images[i]]
              validated == extract_and_validate_json_from_llm_response(raw)
          IN  /\ futures' = [futures EXCEPT ![i] =
                                [state |-> IF validated = None THEN "raised" ELSE "done",
                                 attempts |-> futures[i].attempts + 1,
                                 result |-> validated,
                                 error |-> IF validated = None THEN "ValueError" ELSE ""]]
              /\ finish_order' = Append(finish_order, i)
    /\ UNCHANGED <<pil_images, keyframe_description_results, captioner_output, bpc>>
    /\ BatchOthersUnchanged

\* lines 427-430: list() takes the next result
CollectResult ==
    /\ bpc = "mapping"
    /\ LET k == pool_map_next(finish_order, keyframe_description_results)
       IN  /\ k \in DOMAIN futures
           /\ futures[k].state = "done"
           /\ keyframe_description_results' =
                 Append(keyframe_description_results, futures[k].result[1])
    /\ UNCHANGED <<pil_images, futures, finish_order, captioner_output, bpc>>
    /\ BatchOthersUnchanged

\* the next result is an exception: it leaves list(), and the iterator
\* cancels the futures that no worker has taken
CollectRaises ==
    /\ bpc = "mapping"
    /\ LET k == pool_map_next(finish_order, keyframe_description_results)
       IN  /\ k \in DOMAIN futures
           /\ futures[k].state = "raised"
    /\ futures' = [i \in DOMAIN futures |->
                      IF futures[i].state = "queued"
                      THEN [futures[i] EXCEPT !.state = "cancelled"]
                      ELSE futures[i]]
    /\ bpc' = "raising"
    /\ UNCHANGED <<pil_images, finish_order, keyframe_description_results,
                   captioner_output>>
    /\ BatchOthersUnchanged

\* process_batch returns the list (the pool has no work left);
\* keyframe_captioner.py:131-136 formats and returns it
ProcessBatchReturns ==
    /\ bpc = "mapping"
    /\ Len(keyframe_description_results) = Len(pil_images)
    /\ RunningFutures = {}
    /\ captioner_output' =
          Some(format_keyframe_captioner_output(pil_images, keyframe_description_results))
    /\ bpc' = "returned"
    /\ UNCHANGED <<pil_images, futures, finish_order, keyframe_description_results>>
    /\ BatchOthersUnchanged

\* the with block waits for the running workers, process_batch raises, and
\* keyframe_captioner.py:138-140 returns None
CaptionerCatches ==
    /\ bpc = "raising"
    /\ RunningFutures = {}
    /\ captioner_output' = None
    /\ bpc' = "caught"
    /\ UNCHANGED <<pil_images, futures, finish_order, keyframe_description_results>>
    /\ BatchOthersUnchanged

BatchNext ==
    \/ WorkerTakes
    \/ WorkerGetsNone
    \/ WorkerAnswers
    \/ CollectResult
    \/ CollectRaises
    \/ ProcessBatchReturns
    \/ CaptionerCatches

SpecBatch == BatchInit /\ [][BatchNext]_vars

(***************************************************************************)
(* C30: batch results are all-or-nothing and order-preserving.  When       *)
(* process_batch returns, it returns one result per image, the i-th being  *)
(* the result of the i-th image's own worker, whatever order the workers   *)
(* finished in, and the tool's output lists the keyframes in that order;   *)
(* process_batch never returns when an image used up its attempts or gave  *)
(* a response that failed validation: the tool then returns None, with no  *)
(* result of the images that succeeded.                                    *)
(***************************************************************************)
BatchAllOrNothing ==
    /\ bpc = "returned"
          => /\ Len(keyframe_description_results) = Len(pil_images)
             /\ \A i \in DOMAIN futures :
                   /\ futures[i].state = "done"
                   /\ keyframe_description_results[i] = futures[i].result[1]
                   /\ keyframe_description_results[i].description = pil_images[i]
             /\ captioner_output # None
             /\ Len(captioner_output[1]) = Len(pil_images)
             /\ \A i \in DOMAIN futures :
                   captioner_output[1][i] =
                      [keyframe_id |-> pil_images[i],
                       keyframe_description |-> futures[i].result[1].description]
    /\ (\E i \in DOMAIN futures : futures[i].state = "raised")
          => /\ bpc \in {"mapping", "raising", "caught"}
             /\ captioner_output = None
    /\ bpc = "caught"
          => /\ captioner_output = None
             /\ \E i \in DOMAIN futures : futures[i].state = "raised"

\* the tool returned None although the first image's worker produced a valid
\* result: a later image finished first, one image failed validation
BatchAllOrNothingWitness ==
    /\ bpc = "caught"
    /\ captioner_output = None
    /\ Len(pil_images) = MaxImages
    /\ futures[1].state = "done"
    /\ keyframe_description_results # <<>>
    /\ finish_order[1] # 1
    /\ \E j \in DOMAIN futures : futures[j].state = "raised" /\ futures[j].error = "ValueError"

\* all images succeeded, the workers finishing in another order than the
\* input's, one of them after a retry
BatchOrderWitness ==
    /\ bpc = "returned"
    /\ Len(pil_images) = MaxImages
    /\ pil_images[1] # pil_images[2]
    /\ finish_order[1] = 2
    /\ \E i \in DOMAIN futures : futures[i].attempts > 1

\* one image used up its attempts
BatchExhaustedWitness ==
    /\ bpc = "caught"
    /\ \E i \in DOMAIN futures : futures[i].state = "raised" /\ futures[i].error = "Exception"
    /\ \E i \in DOMAIN futures : futures[i].state = "done"

====
